---- MODULE Spec2Model ----
(***************************************************************************)
(* Model of the ReadyNAS SNMP poll-and-normalize pipeline.                 *)
(*                                                                         *)
(* One behaviour is one invocation of one table normalizer in one of the   *)
(* three variants found in the repository:                                 *)
(*   "class"  - GetReadyNasStats (get_readynas_stats.py), JSON output      *)
(*   "script" - get_readynas_disk_stats.py, disk table only, printed       *)
(*   "ts"     - gather_readynas_stats.py, InfluxDB points                  *)
(*                                                                         *)
(* Spec walks a table of up to MaxRows rows holding up to MaxBinds         *)
(* bindings in all and then normalizes it; SpecRow starts where the walk   *)
(* has returned one row that carries any of the table's columns with any   *)
(* of their values.                                                        *)
(*                                                                         *)
(* Python strings are modelled as sequences of tokens: a token is ":" ,    *)
(* "." , a line break, a digit, or a word that contains none of these.     *)
(***************************************************************************)
EXTENDS Integers, Sequences, FiniteSets, TLC

\* Bounds of the model
MaxRows == 2
MaxBinds == 4
MaxNameLen == 6
MaxTextLen == 4
MaxFields == 3

----------------------------------------------------------------------------
\* Scalars produced by cast(): a Python int or a Python str
IntV(n) == [t |-> "int", n |-> n, s |-> <<>>]
StrV(s) == [t |-> "str", n |-> 0, s |-> s]
NoneV == [t |-> "none", n |-> 0, s |-> <<>>]

\* pysnmp values carried by a variable binding
Integer32(n) == [kind |-> "Integer", n |-> n, text |-> <<>>]
OctetString(text) == [kind |-> "OctetString", n |-> 0, text |-> text]

Digits == {"0", "1", "2", "3", "4", "5", "6", "7", "8", "9"}

DigitVal(d) ==
    CASE d = "0" -> 0 [] d = "1" -> 1 [] d = "2" -> 2 [] d = "3" -> 3
      [] d = "4" -> 4 [] d = "5" -> 5 [] d = "6" -> 6 [] d = "7" -> 7
      [] d = "8" -> 8 [] OTHER -> 9

RECURSIVE IntOfDigits(_)
IntOfDigits(text) ==
    IF text = <<>> THEN 0
    ELSE 10 * IntOfDigits(SubSeq(text, 1, Len(text) - 1)) + DigitVal(text[Len(text)])

\* Text int() accepts: digits, with or without a minus sign
LooksLikeInt(text) ==
    LET body == IF text # <<>> /\ text[1] = "-" THEN Tail(text) ELSE text
    IN  /\ body # <<>>
        /\ \A k \in 1..Len(body) : body[k] \in Digits

IntOfText(text) ==
    IF text[1] = "-" THEN 0 - IntOfDigits(Tail(text)) ELSE IntOfDigits(text)

\* A Python float: n * 10^(-e), or an infinity
FloatV(n, e) == [t |-> "float", n |-> n, s |-> <<ToString(e)>>]
InfV(sign) == [t |-> "float", n |-> sign, s |-> <<"inf">>]

\* Text float() accepts and int() does not: digits around one point, or inf
LooksLikeFloat(text) ==
    LET body == IF text # <<>> /\ text[1] = "-" THEN Tail(text) ELSE text
    IN  \/ body = <<"inf">>
        \/ /\ Cardinality({k \in 1..Len(body) : body[k] = "."}) = 1
           /\ \E k \in 1..Len(body) : body[k] \in Digits
           /\ \A k \in 1..Len(body) : body[k] \in Digits \cup {"."}

RECURSIVE StripZeros(_)
StripZeros(digits) ==
    IF digits # <<>> /\ digits[Len(digits)] = "0"
    THEN StripZeros(SubSeq(digits, 1, Len(digits) - 1))
    ELSE digits

FloatOfText(text) ==
    LET sign == IF text[1] = "-" THEN 0 - 1 ELSE 1
        body == IF text[1] = "-" THEN Tail(text) ELSE text
        point == CHOOSE k \in 1..Len(body) : body[k] = "."
        frac == StripZeros(SubSeq(body, point + 1, Len(body)))
    IN  IF body = <<"inf">> THEN InfV(sign)
        ELSE FloatV(sign * IntOfDigits(SubSeq(body, 1, point - 1) \o frac), Len(frac))

\* cast trying float(value) before int(value)
cast_float_first(value) ==
    IF value.kind = "Integer" THEN FloatV(value.n, 0)
    ELSE IF LooksLikeInt(value.text) THEN FloatV(IntOfText(value.text), 0)
    ELSE IF LooksLikeFloat(value.text) THEN FloatOfText(value.text)
    ELSE StrV(value.text)

\* SnmpQuery.cast: int(value), else float(value), else str(value)
cast(value) ==
    IF value.kind = "Integer" THEN IntV(value.n)
    ELSE IF LooksLikeInt(value.text) THEN IntV(IntOfText(value.text))
    ELSE IF LooksLikeFloat(value.text) THEN FloatOfText(value.text)
    ELSE StrV(value.text)

----------------------------------------------------------------------------
\* Display names as prettyPrint() produces them: MIB::attr.idx
DisplayName(mib, attr, idx) == <<mib, ":", ":", attr, ".", idx>>

NoMatch == <<"<None>">>

\* Positions right after a "::" from which a "." can be reached on the same
\* line: '.' of the pattern does not match a line break
MatchStarts(full_name) ==
    {p \in 3..Len(full_name) :
        /\ full_name[p - 2] = ":"
        /\ full_name[p - 1] = ":"
        /\ \E q \in p..Len(full_name) :
              /\ full_name[q] = "."
              /\ \A k \in p..(q - 1) : full_name[k] # "\n"}

Min(S) == CHOOSE x \in S : \A y \in S : x <= y

\* re_search without the lookbehind: the match starts where the name starts
re_search_from_start(full_name) ==
    IF MatchStarts(full_name) = {} THEN NoMatch
    ELSE LET p == Min(MatchStarts(full_name))
             q == Min({k \in p..Len(full_name) : full_name[k] = "."})
         IN  SubSeq(full_name, 1, q - 1)

\* re.search('(?<=::)(.*?)(?=\.)', full_name): leftmost start, lazy end
re_search(full_name) ==
    IF MatchStarts(full_name) = {} THEN NoMatch
    ELSE LET p == Min(MatchStarts(full_name))
             q == Min({k \in p..Len(full_name) : full_name[k] = "."})
         IN  SubSeq(full_name, p, q - 1)

\* SnmpQuery.get_brief_name: the match, or NoMatch when .group() has nothing
\* to be called on
get_brief_name(full_name) == re_search(full_name)

----------------------------------------------------------------------------
\* Python dicts: insertion-ordered sequences of <<key, value>> pairs
HasKey(items, key) == \E k \in 1..Len(items) : items[k][1] = key

SetItem(items, key, value) ==
    IF HasKey(items, key)
    THEN [k \in 1..Len(items) |->
            IF items[k][1] = key THEN <<key, value>> ELSE items[k]]
    ELSE Append(items, <<key, value>>)

\* Output dicts whose order does not matter: functions from key to value
EmptyDict == [k \in {} |-> 0]

Put(d, key, value) ==
    [k \in (DOMAIN d) \cup {key} |-> IF k = key THEN value ELSE d[k]]


----------------------------------------------------------------------------
\* The tables, their MIBs and what the device may answer for them
Variants == {"class", "script", "ts"}
Tables == {"disk", "fan", "temperature", "volume", "interface"}

Mib(table) == IF table = "interface" THEN "IF-MIB" ELSE "READYNASOS-MIB"

VolumeStates == {"REDUNDANT", "DEGRADED", "UNPROTECTED", "DEAD", "INACTIVE", "UNKNOWN"}

Bind(name, val) == [name |-> name, val |-> val]

\* Variable bindings a walk step may carry; each table also has one
\* attribute that its normalizer does not know
BindChoices(table) ==
    CASE table = "disk" ->
           {Bind("diskNumber", Integer32(n)) : n \in {1, 2}}
           \cup {Bind("ataError", Integer32(3))}
           \cup {Bind("diskState", OctetString(<<w>>)) : w \in {"ONLINE", "OFFLINE", "online"}}
           \cup {Bind("diskTemperature", Integer32(34))}
           \cup {Bind("diskModel", OctetString(<<"WD">>))}
      [] table = "fan" ->
           {Bind("fanNumber", Integer32(1)), Bind("fanRPM", Integer32(1200))}
           \cup {Bind("fanStatus", OctetString(<<w>>)) : w \in {"ok", "failed", "OK"}}
           \cup {Bind("fanType", OctetString(<<"x">>))}
      [] table = "temperature" ->
           {Bind("temperatureNumber", Integer32(1)),
            Bind("temperatureValue", Integer32(34)),
            Bind("temperatureValue", OctetString(<<"9", "9">>)),
            Bind("temperatureType", OctetString(<<"cpu">>))}
      [] table = "volume" ->
           {Bind("volumeNumber", Integer32(1)),
            Bind("volumeRAIDLevel", OctetString(<<"RAID5">>)),
            Bind("volumeName", OctetString(<<"data">>))}
           \cup {Bind("volumeStatus", OctetString(<<w>>)) : w \in VolumeStates \cup {"degraded"}}
           \cup {Bind("volumeSize", Integer32(n)) : n \in {1000, 400}}
           \cup {Bind("volumeFreeSpace", Integer32(400)),
                 Bind("volumeFreeSpace", OctetString(<<"N/A">>))}
      [] OTHER ->
           {Bind("ifName", OctetString(<<"eth0">>)),
            Bind("ifIndex", Integer32(1)),
            Bind("ifOperStatus", OctetString(<<"up">>)),
            Bind("ifHCInOctets", Integer32(1000))}

\* Columns in the order the normalizers request them; the attribute no
\* normalizer of the table asks for comes last
AttrOrder(table) ==
    CASE table = "disk" ->
           <<"diskNumber", "ataError", "diskState", "diskTemperature", "diskModel">>
      [] table = "fan" -> <<"fanNumber", "fanRPM", "fanStatus", "fanType">>
      [] table = "temperature" ->
           <<"temperatureNumber", "temperatureValue", "temperatureType">>
      [] table = "volume" ->
           <<"volumeNumber", "volumeRAIDLevel", "volumeName", "volumeStatus",
             "volumeSize", "volumeFreeSpace">>
      [] OTHER -> <<"ifIndex", "ifName", "ifOperStatus", "ifHCInOctets">>

Col(table, name) == CHOOSE k \in 1..Len(AttrOrder(table)) : AttrOrder(table)[k] = name

\* The var_binds of one step: up to n bindings out of choices, each of
\* another column, in the order of the request
RECURSIVE VarBinds(_, _, _)
VarBinds(choices, table, n) ==
    IF n = 0 THEN {<<>>}
    ELSE LET shorter == VarBinds(choices, table, n - 1)
             longest == {r \in shorter : Len(r) = n - 1}
             After(r) == {b \in choices :
                            r # <<>> => Col(table, b.name) > Col(table, r[Len(r)].name)}
         IN  shorter \cup UNION {{Append(r, b) : b \in After(r)} : r \in longest}

\* Bindings that only the walks of a single row carry
SingleRowOnly ==
    {Bind("diskNumber", Integer32(2)),
     Bind("diskState", OctetString(<<"online">>)),
     Bind("fanStatus", OctetString(<<"OK">>)),
     Bind("temperatureValue", OctetString(<<"9", "9">>)),
     Bind("volumeSize", Integer32(400))}
    \cup {Bind("volumeStatus", OctetString(<<w>>)) : w \in VolumeStates \ {"REDUNDANT"}}

\* Bindings of the walks of several rows
WalkChoices(table) == BindChoices(table) \ SingleRowOnly

DeviceNames == {"bigbang"}

Timestamp == "2020-04-15T16:03:53"

----------------------------------------------------------------------------
\* Working state of one pass of a normalizer's outer loop
NewAcc == [err |-> "none", fields |-> EmptyDict, tags |-> EmptyDict,
           meas |-> EmptyDict, total_space |-> NoneV, free_space |-> NoneV]

Raise(acc, e) == [acc EXCEPT !.err = e]
SetField(acc, key, value) == [acc EXCEPT !.fields = Put(@, key, value)]
SetTag(acc, key, value) == [acc EXCEPT !.tags = Put(@, key, value)]

\* 'Build the measurement' at the end of each pass of the inner loop
BuildMeasurement(acc) ==
    IF acc.err # "none" THEN acc
    ELSE [acc EXCEPT !.meas =
            Put(Put(Put(@, "tags", acc.tags), "time", Timestamp), "fields", acc.fields)]

----------------------------------------------------------------------------
\* GetReadyNasStats (get_readynas_stats.py): keys are brief names

class_disk_status(value) ==
    IF value = StrV(<<"ONLINE">>) THEN IntV(0) ELSE IntV(1)

class_disk_field(acc, key, value) ==
    IF key = <<"diskNumber">> THEN SetField(acc, "disk_number", value)
    ELSE IF key = <<"ataError">> THEN SetField(acc, "ata_error_count", value)
    ELSE IF key = <<"diskState">> THEN SetField(acc, "disk_status", class_disk_status(value))
    ELSE IF key = <<"diskTemperature">> THEN SetField(acc, "disk_temperature", value)
    ELSE Raise(acc, "ValueError")

class_fan_status(value) ==
    IF value = StrV(<<"ok">>) THEN IntV(0) ELSE IntV(1)

class_fan_field(acc, key, value) ==
    IF key = <<"fanNumber">> THEN SetField(acc, "fan_number", value)
    ELSE IF key = <<"fanRPM">> THEN SetField(acc, "fan_speed_rpm", value)
    ELSE IF key = <<"fanStatus">> THEN SetField(acc, "fan_status", class_fan_status(value))
    ELSE Raise(acc, "ValueError")

class_interface_field(acc, key, value) ==
    [acc EXCEPT !.fields = Put(@, key[1], value)]

class_temperature_field(acc, key, value) ==
    IF key = <<"temperatureNumber">> THEN SetField(acc, "temperature_number", value)
    ELSE IF key = <<"temperatureValue">> THEN SetField(acc, "temperature_celsius", value)
    ELSE Raise(acc, "ValueError")

\* class_volume_status with one code given to two states
class_volume_status_dead_as_unprotected(acc, value) ==
    IF value = StrV(<<"REDUNDANT">>) THEN SetField(acc, "volume_status", IntV(0))
    ELSE IF value = StrV(<<"DEGRADED">>) THEN SetField(acc, "volume_status", IntV(1))
    ELSE IF value = StrV(<<"UNPROTECTED">>) THEN SetField(acc, "volume_status", IntV(2))
    ELSE IF value = StrV(<<"DEAD">>) THEN SetField(acc, "volume_status", IntV(2))
    ELSE IF value = StrV(<<"INACTIVE">>) THEN SetField(acc, "volume_status", IntV(4))
    ELSE IF value = StrV(<<"UNKNOWN">>) THEN SetField(acc, "volume_status", IntV(5))
    ELSE acc

class_volume_status(acc, value) ==
    IF value = StrV(<<"REDUNDANT">>) THEN SetField(acc, "volume_status", IntV(0))
    ELSE IF value = StrV(<<"DEGRADED">>) THEN SetField(acc, "volume_status", IntV(1))
    ELSE IF value = StrV(<<"UNPROTECTED">>) THEN SetField(acc, "volume_status", IntV(2))
    ELSE IF value = StrV(<<"DEAD">>) THEN SetField(acc, "volume_status", IntV(3))
    ELSE IF value = StrV(<<"INACTIVE">>) THEN SetField(acc, "volume_status", IntV(4))
    ELSE IF value = StrV(<<"UNKNOWN">>) THEN SetField(acc, "volume_status", IntV(5))
    ELSE acc

\* class_used_space with the operands exchanged
class_used_space_swapped(acc) ==
    IF acc.err # "none" THEN acc
    ELSE IF acc.total_space # NoneV /\ acc.free_space # NoneV
    THEN IF acc.total_space.t = "int" /\ acc.free_space.t = "int"
         THEN SetField(acc, "volume_used_space_mb",
                       IntV(acc.free_space.n - acc.total_space.n))
         ELSE Raise(acc, "TypeError")
    ELSE acc

\* total_space - free_space; Python refuses to subtract when one is a str
class_used_space(acc) ==
    IF acc.err # "none" THEN acc
    ELSE IF acc.total_space # NoneV /\ acc.free_space # NoneV
    THEN IF acc.total_space.t = "int" /\ acc.free_space.t = "int"
         THEN SetField(acc, "volume_used_space_mb",
                       IntV(acc.total_space.n - acc.free_space.n))
         ELSE Raise(acc, "TypeError")
    ELSE acc

class_volume_branch(acc, key, value) ==
    IF key = <<"volumeNumber">> THEN SetField(acc, "volume_number", value)
    ELSE IF key = <<"volumeRAIDLevel">> THEN SetField(acc, "volume_raid_level", value)
    ELSE IF key = <<"volumeStatus">> THEN class_volume_status(acc, value)
    ELSE IF key = <<"volumeSize">>
         THEN SetField([acc EXCEPT !.total_space = value], "volume_total_size_mb", value)
    ELSE IF key = <<"volumeFreeSpace">>
         THEN SetField([acc EXCEPT !.free_space = value], "volume_free_space_mb", value)
    ELSE Raise(acc, "ValueError")

\* The used space computed in the volumeFreeSpace branch only
class_volume_field_used_on_free_space(acc, key, value) ==
    IF key = <<"volumeFreeSpace">>
    THEN class_used_space(class_volume_branch(acc, key, value))
    ELSE class_volume_branch(acc, key, value)

class_volume_field(acc, key, value) ==
    class_used_space(class_volume_branch(acc, key, value))

----------------------------------------------------------------------------
\* get_readynas_disk_stats.py: keys are display names

script_disk_status(value) ==
    IF value = StrV(<<"ONLINE">>) THEN IntV(0) ELSE IntV(1)

\* script_disk_field writing the error count under the temperature's key
script_disk_field_shared_key(acc, key, value) ==
    LET name == get_brief_name(key)
    IN  IF name = NoMatch THEN Raise(acc, "AttributeError")
        ELSE IF name = <<"diskNumber">> THEN SetField(acc, "disk_number", value)
        ELSE IF name = <<"ataError">> THEN SetField(acc, "disk_temperature", value)
        ELSE IF name = <<"diskState">>
             THEN SetField(acc, "disk_status", script_disk_status(value))
        ELSE IF name = <<"diskTemperature">> THEN SetField(acc, "disk_temperature", value)
        ELSE Raise(acc, "ValueError")

script_disk_field(acc, key, value) ==
    LET name == get_brief_name(key)
    IN  IF name = NoMatch THEN Raise(acc, "AttributeError")
        ELSE IF name = <<"diskNumber">> THEN SetField(acc, "disk_number", value)
        ELSE IF name = <<"ataError">> THEN SetField(acc, "ata_error_count", value)
        ELSE IF name = <<"diskState">>
             THEN SetField(acc, "disk_status", script_disk_status(value))
        ELSE IF name = <<"diskTemperature">> THEN SetField(acc, "disk_temperature", value)
        ELSE Raise(acc, "ValueError")

----------------------------------------------------------------------------
\* gather_readynas_stats.py: keys are display names, records are points

\* ts_disk_status knowing one bad state only
ts_disk_status_offline_only(value) ==
    IF value = StrV(<<"OFFLINE">>) THEN IntV(1) ELSE IntV(0)

ts_disk_status(value) ==
    IF value = StrV(<<"ONLINE">>) THEN IntV(0) ELSE IntV(1)

\* ts_disk_field with the final else dropped: an unknown field is skipped
ts_disk_field_skips_unknown(acc, key, value) ==
    LET name == get_brief_name(key)
    IN  BuildMeasurement(
        IF name = NoMatch THEN Raise(acc, "AttributeError")
        ELSE IF name = <<"diskNumber">> THEN SetTag(acc, "disk_number", value)
        ELSE IF name = <<"ataError">> THEN SetField(acc, "ata_error_count", value)
        ELSE IF name = <<"diskState">> THEN SetField(acc, "disk_status", ts_disk_status(value))
        ELSE IF name = <<"diskTemperature">> THEN SetField(acc, "disk_temperature", value)
        ELSE acc)

ts_disk_field(acc, key, value) ==
    LET name == get_brief_name(key)
    IN  BuildMeasurement(
        IF name = NoMatch THEN Raise(acc, "AttributeError")
        ELSE IF name = <<"diskNumber">> THEN SetTag(acc, "disk_number", value)
        ELSE IF name = <<"ataError">> THEN SetField(acc, "ata_error_count", value)
        ELSE IF name = <<"diskState">> THEN SetField(acc, "disk_status", ts_disk_status(value))
        ELSE IF name = <<"diskTemperature">> THEN SetField(acc, "disk_temperature", value)
        ELSE Raise(acc, "ValueError"))

ts_fan_status(value) ==
    IF value = StrV(<<"ok">>) THEN IntV(0) ELSE IntV(1)

ts_fan_field(acc, key, value) ==
    LET name == get_brief_name(key)
    IN  BuildMeasurement(
        IF name = NoMatch THEN Raise(acc, "AttributeError")
        ELSE IF name = <<"fanNumber">> THEN SetTag(acc, "fan_number", value)
        ELSE IF name = <<"fanRPM">> THEN SetField(acc, "fan_speed_rpm", value)
        ELSE IF name = <<"fanStatus">> THEN SetField(acc, "fan_status", ts_fan_status(value))
        ELSE Raise(acc, "ValueError"))

ts_temperature_field(acc, key, value) ==
    LET name == get_brief_name(key)
    IN  BuildMeasurement(
        IF name = NoMatch THEN Raise(acc, "AttributeError")
        ELSE IF name = <<"temperatureNumber">> THEN SetTag(acc, "temperature_number", value)
        ELSE IF name = <<"temperatureValue">> THEN SetField(acc, "temperature_celsius", value)
        ELSE Raise(acc, "ValueError"))

\* The codes of GetReadyNasStats used here as well
ts_volume_status_zero_based(acc, value) ==
    IF value = StrV(<<"REDUNDANT">>) THEN SetField(acc, "volume_status", IntV(0))
    ELSE IF value = StrV(<<"DEGRADED">>) THEN SetField(acc, "volume_status", IntV(1))
    ELSE IF value = StrV(<<"UNPROTECTED">>) THEN SetField(acc, "volume_status", IntV(2))
    ELSE IF value = StrV(<<"DEAD">>) THEN SetField(acc, "volume_status", IntV(3))
    ELSE IF value = StrV(<<"INACTIVE">>) THEN SetField(acc, "volume_status", IntV(4))
    ELSE IF value = StrV(<<"UNKNOWN">>) THEN SetField(acc, "volume_status", IntV(5))
    ELSE acc

ts_volume_status(acc, value) ==
    IF value = StrV(<<"REDUNDANT">>) THEN SetField(acc, "volume_status", IntV(1))
    ELSE IF value = StrV(<<"DEGRADED">>) THEN SetField(acc, "volume_status", IntV(2))
    ELSE IF value = StrV(<<"UNPROTECTED">>) THEN SetField(acc, "volume_status", IntV(3))
    ELSE IF value = StrV(<<"DEAD">>) THEN SetField(acc, "volume_status", IntV(4))
    ELSE IF value = StrV(<<"INACTIVE">>) THEN SetField(acc, "volume_status", IntV(5))
    ELSE IF value = StrV(<<"UNKNOWN">>) THEN SetField(acc, "volume_status", IntV(6))
    ELSE acc

ts_volume_field(acc, key, value) ==
    LET name == get_brief_name(key)
    IN  BuildMeasurement(
        IF name = NoMatch THEN Raise(acc, "AttributeError")
        ELSE IF name = <<"volumeNumber">> THEN SetTag(acc, "volume_number", value)
        ELSE IF name = <<"volumeName">> THEN SetField(acc, "volume_name", value)
        ELSE IF name = <<"volumeStatus">> THEN ts_volume_status(acc, value)
        ELSE IF name = <<"volumeSize">> THEN SetField(acc, "volume_size_mb", value)
        ELSE IF name = <<"volumeFreeSpace">> THEN SetField(acc, "volume_free_mb", value)
        ELSE Raise(acc, "ValueError"))

\* Every field, ifName included, stored as a field
ts_interface_field_all_fields(acc, key, value) ==
    LET name == get_brief_name(key)
    IN  BuildMeasurement(
        IF name = NoMatch THEN Raise(acc, "AttributeError")
        ELSE IF name = <<>> THEN SetField(acc, "", value)
        ELSE SetField(acc, name[1], value))

\* The brief name itself is the key; a one-word name is that word
ts_interface_field(acc, key, value) ==
    LET name == get_brief_name(key)
    IN  BuildMeasurement(
        IF name = NoMatch THEN Raise(acc, "AttributeError")
        ELSE IF name = <<"ifName">> THEN SetTag(acc, name[1], value)
        ELSE IF name = <<>> THEN SetField(acc, "", value)
        ELSE SetField(acc, name[1], value))

----------------------------------------------------------------------------
\* The inner loop 'for key, value in entry.items()' of each normalizer
field_branch(v, table, acc, key, value) ==
    CASE v = "class" /\ table = "disk" -> class_disk_field(acc, key, value)
      [] v = "class" /\ table = "fan" -> class_fan_field(acc, key, value)
      [] v = "class" /\ table = "temperature" -> class_temperature_field(acc, key, value)
      [] v = "class" /\ table = "volume" -> class_volume_field(acc, key, value)
      [] v = "class" /\ table = "interface" -> class_interface_field(acc, key, value)
      [] v = "script" -> script_disk_field(acc, key, value)
      [] v = "ts" /\ table = "disk" -> ts_disk_field(acc, key, value)
      [] v = "ts" /\ table = "fan" -> ts_fan_field(acc, key, value)
      [] v = "ts" /\ table = "temperature" -> ts_temperature_field(acc, key, value)
      [] v = "ts" /\ table = "volume" -> ts_volume_field(acc, key, value)
      [] OTHER -> ts_interface_field(acc, key, value)

RECURSIVE for_items(_, _, _, _, _)
for_items(v, table, acc, items, k) ==
    IF k > Len(items) \/ acc.err # "none" THEN acc
    ELSE for_items(v, table,
                   field_branch(v, table, acc, items[k][1], items[k][2]),
                   items, k + 1)

----------------------------------------------------------------------------
VARIABLES
    variant,            \* which of the three programs runs
    table,              \* the table its normalizer polls
    pc,                 \* "walk", "name", "rows" or "done"
    steps,              \* var_binds of the handler steps that reported no error
    consumed,           \* number of handler steps taken from the walk's handler
    result,             \* the list fetch() is filling
    entries,            \* what the walk returned to the normalizer
    nameQueries,        \* number of device-name queries issued
    replies,            \* the device's replies to those queries, in order
    device_name,        \* GetReadyNasStats: the name resolved before the loop
    i,                  \* entries the outer loop has finished
    measurement_list,   \* the normalizer's list of records
    printed,            \* lists written to standard output
    written,            \* batches handed to write_points
    logged,             \* messages printed by influxdb_write
    ret,                \* value returned by the normalizer
    error,              \* the exception that ended the run, or "none"
    calls,              \* tables whose normalizer this process has called, in order
    pure                \* a call of a helper function: its argument and its outcome

vars == <<variant, table, pc, steps, consumed, result, entries, nameQueries,
          replies, device_name, i, measurement_list, printed, written, logged, ret, error,
          calls, pure>>

\* No helper function is being called on its own
NoCall == [fn |-> "none", arg |-> <<>>, returned |-> FALSE, err |-> "none", value |-> <<>>]

NoEntries == [shape |-> "unset", rows |-> <<>>]

RECURSIVE SumLen(_)
SumLen(ss) == IF ss = <<>> THEN 0 ELSE Len(Head(ss)) + SumLen(Tail(ss))

\* Steps the device can still answer with inside the bounds
NextVarBinds == VarBinds(WalkChoices(table), table, MaxBinds - SumLen(steps)) \ {<<>>}

Init ==
    /\ variant \in Variants
    /\ table \in Tables
    /\ variant = "script" => table = "disk"
    /\ pc = "walk"
    /\ steps = <<>>
    /\ consumed = 0
    /\ result = <<>>
    /\ entries = NoEntries
    /\ nameQueries = 0
    /\ replies = <<>>
    /\ device_name = EmptyDict
    /\ i = 0
    /\ measurement_list = <<>>
    /\ printed = <<>>
    /\ written = <<>>
    /\ logged = <<>>
    /\ ret = "none"
    /\ error = "none"
    /\ calls = <<table>>
    /\ pure = NoCall

----------------------------------------------------------------------------
\* The pass storing the values as the device sent them
RECURSIVE fetch_items_uncast(_, _, _, _)
fetch_items_uncast(mib, idx, var_binds, items) ==
    IF var_binds = <<>> THEN items
    ELSE fetch_items_uncast(mib, idx, Tail(var_binds),
                            SetItem(items,
                                    DisplayName(mib, Head(var_binds).name, idx),
                                    Head(var_binds).val))

\* SnmpQuery.fetch, one pass of its loop: items[prettyPrint(name)] = cast(value)
RECURSIVE fetch_items(_, _, _, _)
fetch_items(mib, idx, var_binds, items) ==
    IF var_binds = <<>> THEN items
    ELSE fetch_items(mib, idx, Tail(var_binds),
                     SetItem(items,
                             DisplayName(mib, Head(var_binds).name, idx),
                             cast(Head(var_binds).val)))

\* A step without error indication and status appends one row
fetch_step ==
    /\ UNCHANGED <<calls, pure>>
    /\ variant \in {"script", "ts"}
    /\ pc = "walk"
    /\ Len(steps) < MaxRows
    /\ \E var_binds \in NextVarBinds :
         /\ steps' = Append(steps, var_binds)
         /\ result' = Append(result,
                fetch_items(Mib(table), ToString(Len(steps) + 1), var_binds, <<>>))
    /\ consumed' = consumed + 1
    /\ UNCHANGED <<variant, table, pc, entries, nameQueries, replies, device_name, i,
                   measurement_list, printed, written, logged, ret, error>>

\* fetch swallowing the error and returning the rows collected so far
fetch_error_returns_partial ==
    /\ UNCHANGED <<calls, pure>>
    /\ variant \in {"script", "ts"}
    /\ pc = "walk"
    /\ consumed' = consumed + 1
    /\ entries' = [shape |-> "list", rows |-> result]
    /\ pc' = "rows"
    /\ UNCHANGED <<variant, table, steps, result, nameQueries, replies, device_name,
                   i, measurement_list, printed, written, logged, ret, error>>

\* A step with an error indication or status raises out of fetch and of the
\* normalizer that called get_next
fetch_error ==
    /\ UNCHANGED <<calls, pure>>
    /\ variant \in {"script", "ts"}
    /\ pc = "walk"
    /\ consumed' = consumed + 1
    /\ error' = "RuntimeError"
    /\ pc' = "done"
    /\ UNCHANGED <<variant, table, steps, result, entries, nameQueries, replies, device_name,
                   i, measurement_list, printed, written, logged, ret>>

\* The handler is exhausted: fetch returns its list
fetch_return ==
    /\ UNCHANGED <<calls, pure>>
    /\ variant \in {"script", "ts"}
    /\ pc = "walk"
    /\ entries' = [shape |-> "list", rows |-> result]
    /\ pc' = "rows"
    /\ UNCHANGED <<variant, table, steps, consumed, result, nameQueries, replies, device_name,
                   i, measurement_list, printed, written, logged, ret, error>>

----------------------------------------------------------------------------
\* SnmpUtility.bulkwalk as GetReadyNasStats uses it: rows keyed by brief name.
\* Its result is either a list of rows or a mapping from row index to row.
RECURSIVE bulkwalk_items(_, _)
bulkwalk_items(var_binds, items) ==
    IF var_binds = <<>> THEN items
    ELSE bulkwalk_items(Tail(var_binds),
                        SetItem(items, <<Head(var_binds).name>>, cast(Head(var_binds).val)))

bulkwalk_step ==
    /\ UNCHANGED <<calls, pure>>
    /\ variant = "class"
    /\ pc = "walk"
    /\ Len(steps) < MaxRows
    /\ \E var_binds \in NextVarBinds :
         /\ steps' = Append(steps, var_binds)
         /\ result' = Append(result, bulkwalk_items(var_binds, <<>>))
    /\ consumed' = consumed + 1
    /\ UNCHANGED <<variant, table, pc, entries, nameQueries, replies, device_name, i,
                   measurement_list, printed, written, logged, ret, error>>

bulkwalk_error ==
    /\ UNCHANGED <<calls, pure>>
    /\ variant = "class"
    /\ pc = "walk"
    /\ consumed' = consumed + 1
    /\ error' = "RuntimeError"
    /\ pc' = "done"
    /\ UNCHANGED <<variant, table, steps, result, entries, nameQueries, replies, device_name,
                   i, measurement_list, printed, written, logged, ret>>

bulkwalk_return ==
    /\ UNCHANGED <<calls, pure>>
    /\ variant = "class"
    /\ pc = "walk"
    /\ \E shape \in {"list", "dict"} : entries' = [shape |-> shape, rows |-> result]
    /\ pc' = "name"
    /\ UNCHANGED <<variant, table, steps, consumed, result, nameQueries, replies, device_name,
                   i, measurement_list, printed, written, logged, ret, error>>

\* Replies of the device to the sysName query
NameReplies ==
    {[err |-> TRUE, name |-> ""]} \cup {[err |-> FALSE, name |-> n] : n \in DeviceNames}

\* SnmpUtility.get_snmp_name(): a mapping holding sysName
class_get_snmp_name ==
    /\ UNCHANGED <<calls, pure>>
    /\ variant = "class"
    /\ pc = "name"
    /\ nameQueries' = nameQueries + 1
    /\ \E reply \in NameReplies :
         /\ replies' = Append(replies, reply)
         /\ IF reply.err
            THEN /\ error' = "RuntimeError"
                 /\ pc' = "done"
                 /\ UNCHANGED device_name
            ELSE /\ device_name' = Put(EmptyDict, "sysName", cast(OctetString(<<reply.name>>)))
                 /\ pc' = "rows"
                 /\ UNCHANGED error
    /\ UNCHANGED <<variant, table, steps, consumed, result, entries, i,
                   measurement_list, printed, written, logged, ret>>

\* SnmpQuery.get_snmp_name: get() of sysName.0 through fetch, then the lookup
get_snmp_name(reply) ==
    IF reply.err THEN [err |-> "RuntimeError", value |-> NoneV]
    ELSE LET host_name == <<fetch_items("SNMPv2-MIB", "0",
                                <<Bind("sysName", OctetString(<<reply.name>>))>>, <<>>)>>
         IN  [err |-> "none", value |-> host_name[1][1][2]]

----------------------------------------------------------------------------
\* Outer loops of GetReadyNasStats

\* fan, temperature and volume iterate entries.values(); disk and interface
\* iterate the walk result itself
UsesValues(t) == t \in {"fan", "temperature", "volume"}

\* The pass of a loop whose fields, total_space and free_space are set up
\* once, before the loop, instead of for each row
class_entry_acc_kept_locals(t, host, entry) ==
    LET last == IF measurement_list = <<>> THEN EmptyDict
                ELSE measurement_list[Len(measurement_list)]
        kept(key) == IF key \in DOMAIN last THEN last[key] ELSE NoneV
    IN  for_items("class", t,
                  SetField([NewAcc EXCEPT !.fields = last,
                                          !.total_space = kept("volume_total_size_mb"),
                                          !.free_space = kept("volume_free_space_mb")],
                           "host", host),
                  entry, 1)

class_entry_acc(t, host, entry) ==
    for_items("class", t, SetField(NewAcc, "host", host), entry, 1)

class_entry ==
    /\ UNCHANGED <<calls, pure>>
    /\ variant = "class"
    /\ pc = "rows"
    /\ IF UsesValues(table) /\ entries.shape = "list"
       THEN \* a list has no values()
            /\ error' = "AttributeError"
            /\ pc' = "done"
            /\ UNCHANGED <<i, measurement_list>>
       ELSE /\ i < Len(entries.rows)
            /\ IF ~UsesValues(table) /\ entries.shape = "dict"
               THEN \* iterating a mapping yields its keys, which have no items()
                    /\ error' = "AttributeError"
                    /\ pc' = "done"
                    /\ UNCHANGED <<i, measurement_list>>
               ELSE LET acc == class_entry_acc(table, device_name["sysName"],
                                               entries.rows[i + 1])
                    IN  IF acc.err # "none"
                        THEN /\ error' = acc.err
                             /\ pc' = "done"
                             /\ UNCHANGED <<i, measurement_list>>
                        ELSE /\ measurement_list' = Append(measurement_list, acc.fields)
                             /\ i' = i + 1
                             /\ UNCHANGED <<error, pc>>
    /\ UNCHANGED <<variant, table, steps, consumed, result, entries, nameQueries, replies,
                   device_name, printed, written, logged, ret>>

\* print(json.dumps(measurement_list)) after the loop
class_print ==
    /\ UNCHANGED <<calls, pure>>
    /\ variant = "class"
    /\ pc = "rows"
    /\ ~(UsesValues(table) /\ entries.shape = "list")
    /\ i = Len(entries.rows)
    /\ printed' = Append(printed, measurement_list)
    /\ pc' = "done"
    /\ UNCHANGED <<variant, table, steps, consumed, result, entries, nameQueries, replies,
                   device_name, i, measurement_list, written, logged, ret, error>>

----------------------------------------------------------------------------
\* Outer loop of get_readynas_disk_stats.py: the name is queried for each entry
script_entry_acc(t, host, entry) ==
    for_items("script", t, SetField(NewAcc, "host", host), entry, 1)

script_entry ==
    /\ UNCHANGED <<calls, pure>>
    /\ variant = "script"
    /\ pc = "rows"
    /\ i < Len(entries.rows)
    /\ nameQueries' = nameQueries + 1
    /\ \E reply \in NameReplies :
         LET host == get_snmp_name(reply)
             acc == script_entry_acc(table, host.value, entries.rows[i + 1])
         IN  /\ replies' = Append(replies, reply)
             /\ IF host.err # "none"
                THEN /\ error' = host.err
                     /\ pc' = "done"
                     /\ UNCHANGED <<i, measurement_list>>
                ELSE IF acc.err # "none"
                THEN /\ error' = acc.err
                     /\ pc' = "done"
                     /\ UNCHANGED <<i, measurement_list>>
                ELSE /\ measurement_list' = Append(measurement_list, acc.fields)
                     /\ i' = i + 1
                     /\ UNCHANGED <<error, pc>>
    /\ UNCHANGED <<variant, table, steps, consumed, result, entries, device_name,
                   printed, written, logged, ret>>

\* print(measurement_list) after the loop
script_print ==
    /\ UNCHANGED <<calls, pure>>
    /\ variant = "script"
    /\ pc = "rows"
    /\ i = Len(entries.rows)
    /\ printed' = Append(printed, measurement_list)
    /\ pc' = "done"
    /\ UNCHANGED <<variant, table, steps, consumed, result, entries, nameQueries, replies,
                   device_name, i, measurement_list, written, logged, ret, error>>

----------------------------------------------------------------------------
\* Outer loops of gather_readynas_stats.py
measurement_name(t) ==
    CASE t = "disk" -> "snmp_disk_stats"
      [] t = "fan" -> "snmp_fan_stats"
      [] t = "temperature" -> "snmp_temperature_measurements"
      [] t = "volume" -> "snmp_volume_stats"
      [] OTHER -> "snmp_interface_stats"

\* The same pass with the host tag left out
ts_entry_acc_without_host(t, host, entry) ==
    for_items("ts", t,
              [NewAcc EXCEPT !.meas = Put(EmptyDict, "measurement", measurement_name(t))],
              entry, 1)

ts_entry_acc(t, host, entry) ==
    for_items("ts", t,
              SetTag([NewAcc EXCEPT !.meas = Put(EmptyDict, "measurement", measurement_name(t))],
                     "host", host),
              entry, 1)

ts_entry ==
    /\ UNCHANGED <<calls, pure>>
    /\ variant = "ts"
    /\ pc = "rows"
    /\ i < Len(entries.rows)
    /\ nameQueries' = nameQueries + 1
    /\ \E reply \in NameReplies :
         LET host == get_snmp_name(reply)
             acc == ts_entry_acc(table, host.value, entries.rows[i + 1])
         IN  /\ replies' = Append(replies, reply)
             /\ IF host.err # "none"
                THEN /\ error' = host.err
                     /\ pc' = "done"
                     /\ UNCHANGED <<i, measurement_list>>
                ELSE IF acc.err # "none"
                THEN /\ error' = acc.err
                     /\ pc' = "done"
                     /\ UNCHANGED <<i, measurement_list>>
                ELSE /\ measurement_list' = Append(measurement_list, acc.meas)
                     /\ i' = i + 1
                     /\ UNCHANGED <<error, pc>>
    /\ UNCHANGED <<variant, table, steps, consumed, result, entries, device_name,
                   printed, written, logged, ret>>

WriteOutcomes == {"connect_raises", "write_raises", "True", "False"}

\* The write placed inside the loop over the rows
rows_exhausted_or_not == i <= Len(entries.rows)

\* The loop over the rows has ended: the statement after it runs
rows_exhausted == i = Len(entries.rows)

\* InfluxDbOps.influxdb_write(measurement_list) and the normalizer's return
influxdb_write ==
    /\ UNCHANGED <<calls, pure>>
    /\ variant = "ts"
    /\ pc = "rows"
    /\ rows_exhausted
    /\ pc' = "done"
    /\ \E outcome \in WriteOutcomes :
         CASE outcome = "connect_raises" ->
                \* 'del client' in the finally clause finds no client bound
                /\ logged' = Append(logged, "Unexpected error in function influxdb_write")
                /\ error' = "UnboundLocalError"
                /\ UNCHANGED <<written, ret>>
           [] outcome = "write_raises" ->
                /\ written' = Append(written, measurement_list)
                /\ logged' = Append(logged, "Unexpected error in function influxdb_write")
                /\ error' = "InfluxDBClientError"
                /\ UNCHANGED ret
           [] OTHER ->
                /\ written' = Append(written, measurement_list)
                /\ ret' = outcome
                /\ UNCHANGED <<logged, error>>
    /\ UNCHANGED <<variant, table, steps, consumed, result, entries, nameQueries, replies,
                   device_name, i, measurement_list, printed>>

----------------------------------------------------------------------------
Next ==
    \/ fetch_step
    \/ fetch_error
    \/ fetch_return
    \/ bulkwalk_step
    \/ bulkwalk_error
    \/ bulkwalk_return
    \/ class_get_snmp_name
    \/ class_entry
    \/ class_print
    \/ script_entry
    \/ script_print
    \/ ts_entry
    \/ influxdb_write

Spec == Init /\ [][Next]_vars

----------------------------------------------------------------------------
\* A normalizer on the walk of a table with one row; the row carries any of
\* the table's columns with any of their values
RowVarBinds(t) == VarBinds(BindChoices(t), t, Len(AttrOrder(t))) \ {<<>>}

InitRow ==
    /\ variant \in Variants
    /\ table \in Tables
    /\ variant = "script" => table = "disk"
    /\ \E var_binds \in RowVarBinds(table) :
         /\ steps = <<var_binds>>
         /\ result = IF variant = "class"
                     THEN <<bulkwalk_items(var_binds, <<>>)>>
                     ELSE <<fetch_items(Mib(table), "1", var_binds, <<>>)>>
    /\ consumed = 1
    /\ \E shape \in {"list", "dict"} :
         /\ variant # "class" => shape = "list"
         /\ entries = [shape |-> shape, rows |-> result]
    /\ pc = IF variant = "class" THEN "name" ELSE "rows"
    /\ nameQueries = 0
    /\ replies = <<>>
    /\ device_name = EmptyDict
    /\ i = 0
    /\ measurement_list = <<>>
    /\ printed = <<>>
    /\ written = <<>>
    /\ logged = <<>>
    /\ ret = "none"
    /\ error = "none"
    /\ calls = <<table>>
    /\ pure = NoCall

NextRow ==
    \/ class_get_snmp_name
    \/ class_entry
    \/ class_print
    \/ script_entry
    \/ script_print
    \/ ts_entry
    \/ influxdb_write

SpecRow == InitRow /\ [][NextRow]_vars

----------------------------------------------------------------------------
\* The three programs as whole processes: main.py runs the method of the
\* option it was given, get_readynas_disk_stats.py calls its one normalizer,
\* gather_readynas_stats.py calls its five normalizers one after the other.

\* Options of main.py's required, mutually exclusive group
Flags == {"-d", "-f", "-t", "-v", "-i"}

\* The table whose statement main.py runs for an option
FlagTable(flag) ==
    CASE flag = "-d" -> "disk"
      [] flag = "-f" -> "fan"
      [] flag = "-t" -> "temperature"
      [] flag = "-v" -> "volume"
      [] OTHER -> "interface"

\* The module-level calls of gather_readynas_stats.py, in order
GatherCalls == <<"disk", "fan", "temperature", "volume", "interface">>

\* Rows of these runs: one binding, of the table's first or of its last column
RunRows(t) ==
    {<<b>> : b \in {c \in WalkChoices(t) : Col(t, c.name) \in {1, Len(AttrOrder(t))}}}

\* The walks of up to n rows
RECURSIVE RunWalks(_, _)
RunWalks(t, n) ==
    IF n = 0 THEN {<<>>}
    ELSE LET shorter == RunWalks(t, n - 1)
         IN  shorter \cup UNION {{Append(w, r) : r \in RunRows(t)} :
                                   w \in {x \in shorter : Len(x) = n - 1}}

InitRun ==
    /\ variant \in Variants
    /\ \E flag \in Flags :
         table = IF variant = "class" THEN FlagTable(flag) ELSE GatherCalls[1]
    /\ pc = "walk"
    /\ steps = <<>>
    /\ consumed = 0
    /\ result = <<>>
    /\ entries = NoEntries
    /\ nameQueries = 0
    /\ replies = <<>>
    /\ device_name = EmptyDict
    /\ i = 0
    /\ measurement_list = <<>>
    /\ printed = <<>>
    /\ written = <<>>
    /\ logged = <<>>
    /\ ret = "none"
    /\ error = "none"
    /\ calls = <<table>>
    /\ pure = NoCall

\* get_next as one call: the list of all rows, or RuntimeError at a step
get_next_call ==
    /\ variant \in {"script", "ts"}
    /\ pc = "walk"
    /\ \E w \in RunWalks(table, MaxRows), failed \in BOOLEAN :
         /\ steps' = w
         /\ result' = [k \in 1..Len(w) |->
                          fetch_items(Mib(table), ToString(k), w[k], <<>>)]
         /\ IF failed
            THEN /\ consumed' = Len(w) + 1
                 /\ error' = "RuntimeError"
                 /\ pc' = "done"
                 /\ UNCHANGED entries
            ELSE /\ consumed' = Len(w)
                 /\ entries' = [shape |-> "list", rows |-> result']
                 /\ pc' = "rows"
                 /\ UNCHANGED error
    /\ UNCHANGED <<variant, table, nameQueries, replies, device_name, i, measurement_list,
                   printed, written, logged, ret, calls, pure>>

\* SnmpUtility.bulkwalk as one call
bulkwalk_call ==
    /\ variant = "class"
    /\ table # "interface"
    /\ pc = "walk"
    /\ \E w \in RunWalks(table, MaxRows), failed \in BOOLEAN, shape \in {"list", "dict"} :
         /\ steps' = w
         /\ result' = [k \in 1..Len(w) |-> bulkwalk_items(w[k], <<>>)]
         /\ IF failed
            THEN /\ consumed' = Len(w) + 1
                 /\ error' = "RuntimeError"
                 /\ pc' = "done"
                 /\ UNCHANGED entries
            ELSE /\ consumed' = Len(w)
                 /\ entries' = [shape |-> shape, rows |-> result']
                 /\ pc' = "name"
                 /\ UNCHANGED error
    /\ UNCHANGED <<variant, table, nameQueries, replies, device_name, i, measurement_list,
                   printed, written, logged, ret, calls, pure>>

\* A row of a walk as the mapping json.dumps is handed
as_mapping(items) ==
    [key \in {items[j][1][1] : j \in 1..Len(items)} |->
        items[CHOOSE j \in 1..Len(items) : items[j][1][1] = key][2]]

\* main.py -i: print(json.dumps(stats.get_snmp_interfaces()))
main_interfaces ==
    /\ variant = "class"
    /\ table = "interface"
    /\ pc = "walk"
    /\ \E w \in RunWalks(table, MaxRows), failed \in BOOLEAN :
         /\ steps' = w
         /\ result' = [k \in 1..Len(w) |-> bulkwalk_items(w[k], <<>>)]
         /\ IF failed
            THEN /\ consumed' = Len(w) + 1
                 /\ error' = "RuntimeError"
                 /\ UNCHANGED <<entries, printed>>
            ELSE /\ consumed' = Len(w)
                 /\ entries' = [shape |-> "list", rows |-> result']
                 /\ printed' = Append(printed, [k \in 1..Len(w) |-> as_mapping(result'[k])])
                 /\ UNCHANGED error
    /\ pc' = "done"
    /\ UNCHANGED <<variant, table, nameQueries, replies, device_name, i, measurement_list,
                   written, logged, ret, calls, pure>>

\* gather_next_call going on after a normalizer that raised
gather_next_call_after_error ==
    /\ variant = "ts"
    /\ pc = "done"
    /\ Len(calls) < Len(GatherCalls)
    /\ table' = GatherCalls[Len(calls) + 1]
    /\ calls' = Append(calls, table')
    /\ pc' = "walk"
    /\ steps' = <<>>
    /\ consumed' = 0
    /\ result' = <<>>
    /\ entries' = NoEntries
    /\ nameQueries' = 0
    /\ replies' = <<>>
    /\ i' = 0
    /\ measurement_list' = <<>>
    /\ ret' = "none"
    /\ error' = "none"
    /\ UNCHANGED <<variant, device_name, printed, written, logged, pure>>

\* gather_next_call taking the tables not yet polled in any order
gather_next_call_any_order ==
    /\ variant = "ts"
    /\ pc = "done"
    /\ error = "none"
    /\ Len(calls) < Len(GatherCalls)
    /\ \E t \in Tables \ {calls[k] : k \in 1..Len(calls)} : table' = t
    /\ calls' = Append(calls, table')
    /\ pc' = "walk"
    /\ steps' = <<>>
    /\ consumed' = 0
    /\ result' = <<>>
    /\ entries' = NoEntries
    /\ nameQueries' = 0
    /\ replies' = <<>>
    /\ i' = 0
    /\ measurement_list' = <<>>
    /\ ret' = "none"
    /\ UNCHANGED <<variant, device_name, printed, written, logged, error, pure>>

\* gather_readynas_stats.py: the normalizer returned, the next one is called
gather_next_call ==
    /\ variant = "ts"
    /\ pc = "done"
    /\ error = "none"
    /\ Len(calls) < Len(GatherCalls)
    /\ table' = GatherCalls[Len(calls) + 1]
    /\ calls' = Append(calls, table')
    /\ pc' = "walk"
    /\ steps' = <<>>
    /\ consumed' = 0
    /\ result' = <<>>
    /\ entries' = NoEntries
    /\ nameQueries' = 0
    /\ replies' = <<>>
    /\ i' = 0
    /\ measurement_list' = <<>>
    /\ ret' = "none"
    /\ UNCHANGED <<variant, device_name, printed, written, logged, error, pure>>

NextRun ==
    \/ get_next_call
    \/ bulkwalk_call
    \/ main_interfaces
    \/ class_get_snmp_name
    \/ class_entry
    \/ class_print
    \/ script_entry
    \/ script_print
    \/ ts_entry
    \/ influxdb_write
    \/ gather_next_call

SpecRun == InitRun /\ [][NextRun]_vars

----------------------------------------------------------------------------
\* The helper functions of SnmpQuery called on their own.  pure holds the
\* function, its arguments and, once it has returned or raised, its outcome.

\* Python objects passed as v3; 'v3 is False' holds of the object False only
V3Values == {"True", "False", "None", "0"}

CredentialValues == {"public", "private", ""}

\* construct_credentials with SNMP v3 supported
construct_credentials_v3_supported(v3, credentials) ==
    IF v3 = "False"
    THEN [err |-> "none", value |-> [kind |-> "CommunityData", name |-> credentials]]
    ELSE [err |-> "none", value |-> [kind |-> "UsmUserData", name |-> credentials]]

construct_credentials(v3, credentials) ==
    IF v3 = "False"
    THEN [err |-> "none", value |-> [kind |-> "CommunityData", name |-> credentials]]
    ELSE [err |-> "NotImplementedError", value |-> [kind |-> "None", name |-> ""]]

\* The pipeline's variables while a helper function is called on its own
Idle ==
    /\ variant = "none"
    /\ table = "none"
    /\ pc = "idle"
    /\ steps = <<>>
    /\ consumed = 0
    /\ result = <<>>
    /\ entries = NoEntries
    /\ nameQueries = 0
    /\ replies = <<>>
    /\ device_name = EmptyDict
    /\ i = 0
    /\ measurement_list = <<>>
    /\ printed = <<>>
    /\ written = <<>>
    /\ logged = <<>>
    /\ ret = "none"
    /\ error = "none"
    /\ calls = <<>>

pipeline == <<variant, table, pc, steps, consumed, result, entries, nameQueries,
              replies, device_name, i, measurement_list, printed, written, logged, ret,
              error, calls>>

Call(fn, arg) == [fn |-> fn, arg |-> arg, returned |-> FALSE, err |-> "none", value |-> <<>>]

CredentialCalls ==
    {Call("construct_credentials", <<v3, c>>) : v3 \in V3Values, c \in CredentialValues}

construct_credentials_call ==
    /\ pure.fn = "construct_credentials"
    /\ ~pure.returned
    /\ LET out == construct_credentials(pure.arg[1], pure.arg[2])
       IN  pure' = [pure EXCEPT !.returned = TRUE, !.err = out.err, !.value = out.value]
    /\ UNCHANGED pipeline

\* Tokens of the strings get_brief_name is called with
NameTokens == {":", ".", "\n", "m", "a"}

RECURSIVE Strings(_, _)
Strings(tokens, n) ==
    IF n = 0 THEN {<<>>}
    ELSE LET shorter == Strings(tokens, n - 1)
         IN  shorter \cup {Append(x, c) : x \in {y \in shorter : Len(y) = n - 1}, c \in tokens}

BriefNameCalls == {Call("get_brief_name", <<x>>) : x \in Strings(NameTokens, MaxNameLen)}

\* re.search gives None when nothing matches, and None has no group()
get_brief_name_call ==
    /\ pure.fn = "get_brief_name"
    /\ ~pure.returned
    /\ LET brief_name == get_brief_name(pure.arg[1])
       IN  IF brief_name = NoMatch
           THEN pure' = [pure EXCEPT !.returned = TRUE, !.err = "AttributeError"]
           ELSE pure' = [pure EXCEPT !.returned = TRUE, !.value = brief_name]
    /\ UNCHANGED pipeline

\* Tokens of the texts cast is called with
CastTokens == {"-", ".", "0", "1", "5", "inf", "ONLINE"}

CastCalls ==
    {Call("cast", <<OctetString(x)>>) : x \in Strings(CastTokens, MaxTextLen)}
    \cup {Call("cast", <<Integer32(n)>>) : n \in {0, 34}}

\* None of int(), float() and str() raises anything but what cast catches
cast_call ==
    /\ pure.fn = "cast"
    /\ ~pure.returned
    /\ pure' = [pure EXCEPT !.returned = TRUE, !.value = cast(pure.arg[1])]
    /\ UNCHANGED pipeline

InitFn ==
    /\ Idle
    /\ \/ pure \in CredentialCalls
       \/ pure \in BriefNameCalls
       \/ pure \in CastCalls

NextFn ==
    \/ construct_credentials_call
    \/ get_brief_name_call
    \/ cast_call

SpecFn == InitFn /\ [][NextFn]_vars

----------------------------------------------------------------------------
\* influxdb_write statement by statement, inside gather_readynas_stats.py:
\* each normalizer arrives at its call of influxdb_write with the list it
\* built.  pure holds the frame of the call: its argument, the local client,
\* the result of write_points, the pending exception and the value returned,
\* and counts the clients this call created and those still bound.

\* Objects write_points may hand back; 'status is True' holds of True only
WriteResults == {"True", "False", "None", "1"}

\* Lists a normalizer hands over: none, or one point of a row of its table
Batches(t) ==
    {<<>>} \cup
    {<<acc.meas>> : acc \in
        {a \in {ts_entry_acc(t, StrV(<<"bigbang">>), fetch_items(Mib(t), "1", r, <<>>)) :
                   r \in RunRows(t)} : a.err = "none"}}

WriteCall(points, held) ==
    [fn |-> "influxdb_write", arg |-> points, returned |-> FALSE, err |-> "none",
     value |-> "none", client |-> "unbound", status |-> "unset",
     acquired |-> 0, held |-> held]

InitWrite ==
    /\ variant = "ts"
    /\ table = GatherCalls[1]
    /\ pc = "connect"
    /\ steps = <<>>
    /\ consumed = 0
    /\ result = <<>>
    /\ entries = NoEntries
    /\ nameQueries = 0
    /\ replies = <<>>
    /\ device_name = EmptyDict
    /\ i = 0
    /\ measurement_list \in Batches(table)
    /\ printed = <<>>
    /\ written = <<>>
    /\ logged = <<>>
    /\ ret = "none"
    /\ error = "none"
    /\ calls = <<table>>
    /\ pure = WriteCall(measurement_list, 0)

walked == <<variant, table, steps, consumed, result, entries, nameQueries, replies,
            device_name, i, measurement_list, printed, calls>>

\* client = self.influxdb_connect(): a client, or the constructor's exception
influxdb_connect ==
    /\ pure.fn = "influxdb_write"
    /\ pc = "connect"
    /\ \E created \in BOOLEAN :
         IF created
         THEN /\ pure' = [pure EXCEPT !.client = "bound",
                                      !.acquired = @ + 1, !.held = @ + 1]
              /\ pc' = "write"
         ELSE /\ pure' = [pure EXCEPT !.err = "ValueError"]
              /\ pc' = "except"
    /\ UNCHANGED <<walked, written, logged, ret, error>>

\* status = client.write_points(points, ...): a result, or the client's exception
write_points ==
    /\ pure.fn = "influxdb_write"
    /\ pc = "write"
    /\ written' = Append(written, pure.arg)
    /\ \E outcome \in WriteResults \cup {"raises"} :
         IF outcome = "raises"
         THEN /\ pure' = [pure EXCEPT !.err = "InfluxDBClientError"]
              /\ pc' = "except"
         ELSE /\ pure' = [pure EXCEPT !.status = outcome]
              /\ pc' = "test"
    /\ UNCHANGED <<walked, logged, ret, error>>

\* 'if status:' in place of the identity test
is_truthy(status) == status \in {"True", "1"}

\* 'status is True'
is_True(status) == status = "True"

\* if status is True: return True / else: return False
status_test ==
    /\ pure.fn = "influxdb_write"
    /\ pc = "test"
    /\ pure' = [pure EXCEPT !.value = IF is_True(pure.status) THEN "True" ELSE "False"]
    /\ pc' = "finally"
    /\ UNCHANGED <<walked, written, logged, ret, error>>

\* except: print(...); raise
except_clause ==
    /\ pure.fn = "influxdb_write"
    /\ pc = "except"
    /\ logged' = Append(logged, "Unexpected error in function influxdb_write")
    /\ pc' = "finally"
    /\ UNCHANGED <<walked, written, ret, error, pure>>

\* The finally clause leaving the name bound
del_client_skipped(frame) == frame

\* del client: unbinds the local name, or finds it unbound
del_client(frame) ==
    IF frame.client = "bound"
    THEN [frame EXCEPT !.client = "unbound", !.held = @ - 1]
    ELSE [frame EXCEPT !.err = "UnboundLocalError"]

\* finally: del client, then the pending return or exception takes place.
\* A frame that returns drops its locals; a frame that raises is kept by
\* the traceback with whatever it still binds.
finally_clause ==
    /\ pure.fn = "influxdb_write"
    /\ pc = "finally"
    /\ LET frame == del_client(pure)
       IN  IF frame.err # "none"
           THEN /\ pure' = [frame EXCEPT !.returned = TRUE]
                /\ error' = frame.err
                /\ pc' = "done"
           ELSE /\ pure' = [frame EXCEPT !.returned = TRUE,
                                         !.held = IF @ > 0 /\ frame.client = "bound"
                                                  THEN @ - 1 ELSE @,
                                         !.client = "unbound"]
                /\ pc' = "status"
                /\ UNCHANGED error
    /\ UNCHANGED <<walked, written, logged, ret>>

\* The normalizer: if status is True: return True / else: return False
normalizer_return ==
    /\ pure.fn = "influxdb_write"
    /\ pc = "status"
    /\ ret' = IF is_True(pure.value) THEN "True" ELSE "False"
    /\ pc' = "done"
    /\ UNCHANGED <<walked, written, logged, error, pure>>

\* The next module-level call, its normalizer arriving at its write
next_write ==
    /\ pure.fn = "influxdb_write"
    /\ pc = "done"
    /\ error = "none"
    /\ Len(calls) < Len(GatherCalls)
    /\ table' = GatherCalls[Len(calls) + 1]
    /\ calls' = Append(calls, table')
    /\ measurement_list' \in Batches(table')
    /\ pure' = WriteCall(measurement_list', pure.held)
    /\ ret' = "none"
    /\ pc' = "connect"
    /\ UNCHANGED <<variant, steps, consumed, result, entries, nameQueries, replies,
                   device_name, i, printed, written, logged, error>>

NextWrite ==
    \/ influxdb_connect
    \/ write_points
    \/ status_test
    \/ except_clause
    \/ finally_clause
    \/ normalizer_return
    \/ next_write

SpecWrite == InitWrite /\ [][NextWrite]_vars

----------------------------------------------------------------------------
\* One already-walked row whose fields come in any order: a dict is iterated
\* in the order its keys were inserted, and that order is the walk's.

\* The orders in which n fields can come
Perms(n) == {p \in [1..n -> 1..n] : \A a, b \in 1..n : p[a] = p[b] => a = b}

Permuted(row, p) == [j \in 1..Len(row) |-> row[p[j]]]

\* Rows of up to MaxFields fields, in every order
PermRows(t) ==
    UNION {{Permuted(r, p) : p \in Perms(Len(r))} :
              r \in VarBinds(BindChoices(t), t, MaxFields) \ {<<>>}}

\* The fields of a row in the order the normalizer requested the columns
InRequestOrder(row) ==
    CHOOSE r \in {Permuted(row, p) : p \in Perms(Len(row))} :
        \A j \in 1..(Len(r) - 1) : Col(table, r[j].name) < Col(table, r[j + 1].name)

InitPerm ==
    /\ variant \in Variants
    /\ table \in Tables
    /\ variant = "script" => table = "disk"
    /\ \E var_binds \in PermRows(table) :
         /\ steps = <<var_binds>>
         /\ result = IF variant = "class"
                     THEN <<bulkwalk_items(var_binds, <<>>)>>
                     ELSE <<fetch_items(Mib(table), "1", var_binds, <<>>)>>
    /\ consumed = 1
    /\ \E shape \in {"list", "dict"} :
         /\ variant # "class" => shape = "list"
         /\ entries = [shape |-> shape, rows |-> result]
    /\ pc = IF variant = "class" THEN "name" ELSE "rows"
    /\ nameQueries = 0
    /\ replies = <<>>
    /\ device_name = EmptyDict
    /\ i = 0
    /\ measurement_list = <<>>
    /\ printed = <<>>
    /\ written = <<>>
    /\ logged = <<>>
    /\ ret = "none"
    /\ error = "none"
    /\ calls = <<table>>
    /\ pure = NoCall

SpecPerm == InitPerm /\ [][NextRow]_vars

----------------------------------------------------------------------------
\* Vocabulary of the properties

\* Attributes each normalizer has a branch for
KnownAttrs(v, t) ==
    CASE t = "disk" -> {"diskNumber", "ataError", "diskState", "diskTemperature"}
      [] t = "fan" -> {"fanNumber", "fanRPM", "fanStatus"}
      [] t = "temperature" -> {"temperatureNumber", "temperatureValue"}
      [] t = "volume" ->
           {"volumeNumber", "volumeStatus", "volumeSize", "volumeFreeSpace"}
           \cup (IF v = "ts" THEN {"volumeName"} ELSE {"volumeRAIDLevel"})
      [] OTHER -> {"ifIndex", "ifName", "ifOperStatus", "ifHCInOctets"}

HasAttr(row, name) == \E j \in 1..Len(row) : row[j].name = name
ValueOf(row, name) == row[CHOOSE j \in 1..Len(row) : row[j].name = name].val

HasUnknown(row) == \E j \in 1..Len(row) : row[j].name \notin KnownAttrs(variant, table)
UnknownRows == {k \in 1..Len(steps) : HasUnknown(steps[k])}

\* A row on which total_space - free_space cannot be computed
SubtractionFails(row) ==
    /\ variant = "class"
    /\ table = "volume"
    /\ HasAttr(row, "volumeSize")
    /\ HasAttr(row, "volumeFreeSpace")
    /\ \/ cast(ValueOf(row, "volumeSize")).t # "int"
       \/ cast(ValueOf(row, "volumeFreeSpace")).t # "int"

AllRepliesOk == \A k \in 1..Len(replies) : ~replies[k].err

\* The loop of the GetReadyNasStats normalizer can iterate what the walk returned
ShapeFits == variant = "class" => (UsesValues(table) <=> entries.shape = "dict")

Merge(a, b) == [k \in (DOMAIN a) \cup (DOMAIN b) |-> IF k \in DOMAIN a THEN a[k] ELSE b[k]]

\* A record as one flat mapping: a point's tags and fields together
Flat(m) ==
    IF variant # "ts" THEN m
    ELSE IF "tags" \in DOMAIN m THEN Merge(m["tags"], m["fields"])
    ELSE EmptyDict

\* The name the k-th record of this run was given by the device
ResolvedName(k) ==
    IF variant = "class" THEN StrV(<<replies[1].name>>) ELSE StrV(<<replies[k].name>>)

NothingEmitted == printed = <<>> /\ written = <<>>

----------------------------------------------------------------------------
\* C1: in the disk, fan, temperature and volume normalizers of every variant,
\* a walk result holding a row with a field outside the table's known set
\* never leads to a print or a database write, the run ends in an error, and
\* when nothing else fails before that field is reached (name queries
\* answered, the loop able to iterate the walk result, no failed subtraction
\* in an earlier row) the error is the unexpected-field ValueError, raised
\* at the first such row after all earlier rows were normalized.
C1_UnknownFieldFailsFast ==
    (table # "interface" /\ UnknownRows # {}) =>
        /\ NothingEmitted
        /\ (pc = "done" /\ entries # NoEntries) =>
              /\ error # "none"
              /\ (/\ AllRepliesOk
                  /\ ShapeFits
                  /\ \A k \in 1..(Min(UnknownRows) - 1) : ~SubtractionFails(steps[k]))
                 => /\ error = "ValueError"
                    /\ i = Min(UnknownRows) - 1
                    /\ Len(measurement_list) = i

C1_Witness ==
    /\ pc = "done"
    /\ error = "ValueError"
    /\ UnknownRows = {2}
    /\ Len(measurement_list) = 1
    /\ NothingEmitted

----------------------------------------------------------------------------
\* C2: in the query executor of snmp_utilities.py, a handler step with an
\* error indication or status ends the walk with RuntimeError: no list is
\* returned although earlier steps were collected, the failing step is the
\* last one consumed, and the calling normalizer neither prints nor writes;
\* a returned list means every consumed step was free of errors.  The same
\* holds for the get() behind the device-name query.
C2_QueryErrorAbortsWalk ==
    variant \in {"script", "ts"} =>
        /\ entries # NoEntries =>
              /\ consumed = Len(steps)
              /\ Len(entries.rows) = Len(steps)
        /\ (pc = "done" /\ entries = NoEntries) =>
              /\ error = "RuntimeError"
              /\ consumed = Len(steps) + 1
              /\ measurement_list = <<>>
              /\ ret = "none"
              /\ NothingEmitted
        /\ \A k \in 1..Len(replies) :
              replies[k].err =>
                 /\ k = Len(replies)
                 /\ pc = "done"
                 /\ error = "RuntimeError"
                 /\ NothingEmitted

C2_Witness ==
    /\ variant = "ts"
    /\ pc = "done"
    /\ entries = NoEntries
    /\ error = "RuntimeError"
    /\ Len(steps) = MaxRows
    /\ consumed = MaxRows + 1
    /\ NothingEmitted

----------------------------------------------------------------------------
\* The k-th record of the run as one flat mapping
Rec(k) == Flat(measurement_list[k])

AttrsOf(row) == {row[j].name : j \in 1..Len(row)}

\* Nothing went wrong in the queries or in the fields of the rows
NoQueryOrFieldError ==
    /\ entries # NoEntries
    /\ replies # <<>>
    /\ AllRepliesOk
    /\ UnknownRows = {}
    /\ \A k \in 1..Len(steps) : ~SubtractionFails(steps[k])

\* C3: every normalizer of GetReadyNasStats, on the walk result bulkwalk
\* gives it, ends a run without query or field error by printing one list
\* with one record per row, the k-th record built from the k-th row.
C3_OneRecordPerRow ==
    (variant = "class" /\ pc = "done" /\ NoQueryOrFieldError) =>
        /\ error = "none"
        /\ printed = <<measurement_list>>
        /\ Len(measurement_list) = Len(steps)
        /\ \A k \in 1..Len(measurement_list) :
              measurement_list[k] =
                  class_entry_acc(table, ResolvedName(k), entries.rows[k]).fields

----------------------------------------------------------------------------
DiskKeys == {"host", "disk_number", "ata_error_count", "disk_status", "disk_temperature"}

DiskKey(attr) ==
    CASE attr = "diskNumber" -> "disk_number"
      [] attr = "ataError" -> "ata_error_count"
      [] attr = "diskState" -> "disk_status"
      [] OTHER -> "disk_temperature"

\* C4 as stated: every record of a disk normalizer has exactly the keys
\* host, disk_number, ata_error_count, disk_status and disk_temperature,
\* the passed-through values being those of the row and host the device name.
C4_FixedDiskKeySet ==
    table = "disk" =>
        \A k \in 1..Len(measurement_list) :
            /\ DOMAIN Rec(k) = DiskKeys
            /\ Rec(k)["host"] = ResolvedName(k)
            /\ \A a \in {"diskNumber", "ataError", "diskTemperature"} :
                  Rec(k)[DiskKey(a)] = cast(ValueOf(steps[k], a))

\* C4: every record of a disk normalizer has the key host, holding the
\* device name, and one key for each of diskNumber, ataError, diskState and
\* diskTemperature that its row carries, and no other key; the passed-through
\* values are those of the row; a row carrying all four columns gives
\* exactly the five keys.
C4_DiskKeysFollowFields ==
    table = "disk" =>
        \A k \in 1..Len(measurement_list) :
            /\ DOMAIN Rec(k) = {"host"} \cup {DiskKey(a) : a \in AttrsOf(steps[k])}
            /\ Rec(k)["host"] = ResolvedName(k)
            /\ \A a \in AttrsOf(steps[k]) \cap {"diskNumber", "ataError", "diskTemperature"} :
                  Rec(k)[DiskKey(a)] = cast(ValueOf(steps[k], a))
            /\ KnownAttrs(variant, table) \subseteq AttrsOf(steps[k]) => DOMAIN Rec(k) = DiskKeys

C4_Witness ==
    /\ variant = "script"
    /\ table = "disk"
    /\ printed # <<>>
    /\ Len(printed[1]) = 1
    /\ DOMAIN printed[1][1] = DiskKeys
    /\ printed[1][1]["ata_error_count"] = IntV(3)
    /\ printed[1][1]["disk_temperature"] = IntV(34)

----------------------------------------------------------------------------
StatusAttr == IF table = "disk" THEN "diskState" ELSE "fanStatus"
StatusKey == IF table = "disk" THEN "disk_status" ELSE "fan_status"
GoodStatus == IF table = "disk" THEN "ONLINE" ELSE "ok"

\* C5: in the disk and fan normalizers of every variant, a record whose row
\* carries diskState (fanStatus) has disk_status (fan_status) 0 when the value
\* is exactly "ONLINE" ("ok") and 1 for any other value; the key is never
\* absent, and no status value makes the normalizer raise: a run whose
\* queries succeeded and whose rows hold known fields only builds a record
\* for every row.
C5_StatusTotalBinary ==
    table \in {"disk", "fan"} =>
        /\ \A k \in 1..Len(measurement_list) :
              HasAttr(steps[k], StatusAttr) =>
                 /\ StatusKey \in DOMAIN Rec(k)
                 /\ Rec(k)[StatusKey] =
                       IF ValueOf(steps[k], StatusAttr) = OctetString(<<GoodStatus>>)
                       THEN IntV(0) ELSE IntV(1)
        /\ (pc = "done" /\ NoQueryOrFieldError /\ ShapeFits) =>
              Len(measurement_list) = Len(steps)

C5_Witness ==
    /\ variant = "ts"
    /\ table = "disk"
    /\ written # <<>>
    /\ Len(written[1]) = 1
    /\ HasAttr(steps[1], "diskState")
    /\ ValueOf(steps[1], "diskState") = OctetString(<<"online">>)
    /\ Rec(1)["disk_status"] = IntV(1)

----------------------------------------------------------------------------
\* C6: in the volume normalizer of GetReadyNasStats, a record whose row
\* carries both volumeSize and volumeFreeSpace has volume_used_space_mb equal
\* to its volume_total_size_mb minus its volume_free_space_mb, these two being
\* the row's values; a record whose row lacks either has no
\* volume_used_space_mb.
C6_UsedSpaceIdentity ==
    (variant = "class" /\ table = "volume") =>
        \A k \in 1..Len(measurement_list) :
            IF HasAttr(steps[k], "volumeSize") /\ HasAttr(steps[k], "volumeFreeSpace")
            THEN /\ {"volume_total_size_mb", "volume_free_space_mb", "volume_used_space_mb"}
                       \subseteq DOMAIN Rec(k)
                 /\ Rec(k)["volume_total_size_mb"] = cast(ValueOf(steps[k], "volumeSize"))
                 /\ Rec(k)["volume_free_space_mb"] = cast(ValueOf(steps[k], "volumeFreeSpace"))
                 /\ Rec(k)["volume_used_space_mb"] =
                       IntV(Rec(k)["volume_total_size_mb"].n - Rec(k)["volume_free_space_mb"].n)
            ELSE "volume_used_space_mb" \notin DOMAIN Rec(k)

C6_Witness ==
    /\ variant = "class"
    /\ table = "volume"
    /\ printed # <<>>
    /\ Len(printed[1]) = 1
    /\ "volume_used_space_mb" \in DOMAIN printed[1][1]
    /\ printed[1][1]["volume_total_size_mb"] = IntV(1000)
    /\ printed[1][1]["volume_free_space_mb"] = IntV(400)
    /\ printed[1][1]["volume_used_space_mb"] = IntV(600)

----------------------------------------------------------------------------
\* The volume row of the end-to-end scenario
ScenarioRow ==
    <<Bind("volumeNumber", Integer32(1)),
      Bind("volumeStatus", OctetString(<<"DEGRADED">>)),
      Bind("volumeSize", Integer32(1000)),
      Bind("volumeFreeSpace", Integer32(400))>>

\* C7: every volume normalizer, of GetReadyNasStats and of
\* gather_readynas_stats.py, turns the scenario row into a record with
\* volume_number 1, volume_status the variant's code of DEGRADED,
\* volume_total_size_mb 1000, volume_free_space_mb 400 and
\* volume_used_space_mb 600.
C7_ScenarioRecord ==
    (table = "volume" /\ steps = <<ScenarioRow>> /\ measurement_list # <<>>) =>
        /\ {"volume_number", "volume_status", "volume_total_size_mb",
            "volume_free_space_mb", "volume_used_space_mb"} \subseteq DOMAIN Rec(1)
        /\ Rec(1)["volume_number"] = IntV(1)
        /\ Rec(1)["volume_status"] = IntV(IF variant = "class" THEN 1 ELSE 2)
        /\ Rec(1)["volume_total_size_mb"] = IntV(1000)
        /\ Rec(1)["volume_free_space_mb"] = IntV(400)
        /\ Rec(1)["volume_used_space_mb"] = IntV(600)

----------------------------------------------------------------------------
SpecifiedCode ==
    [w \in VolumeStates |->
        CASE w = "REDUNDANT" -> 0
          [] w = "DEGRADED" -> 1
          [] w = "UNPROTECTED" -> 2
          [] w = "DEAD" -> 3
          [] w = "INACTIVE" -> 4
          [] OTHER -> 5]

\* C8: in the volume normalizer of GetReadyNasStats, a record whose row
\* carries volumeStatus REDUNDANT, DEGRADED, UNPROTECTED, DEAD, INACTIVE or
\* UNKNOWN has volume_status 0, 1, 2, 3, 4 or 5 respectively, six different
\* codes; a record whose row carries any other volumeStatus, or none, has no
\* volume_status.
C8_VolumeStatusExact ==
    (variant = "class" /\ table = "volume") =>
        \A k \in 1..Len(measurement_list) :
            IF /\ HasAttr(steps[k], "volumeStatus")
               /\ \E w \in VolumeStates : ValueOf(steps[k], "volumeStatus") = OctetString(<<w>>)
            THEN /\ "volume_status" \in DOMAIN Rec(k)
                 /\ \A w \in VolumeStates :
                       ValueOf(steps[k], "volumeStatus") = OctetString(<<w>>)
                          => Rec(k)["volume_status"] = IntV(SpecifiedCode[w])
                 /\ \A w \in VolumeStates :
                       Rec(k)["volume_status"] = IntV(SpecifiedCode[w])
                          => ValueOf(steps[k], "volumeStatus") = OctetString(<<w>>)
            ELSE "volume_status" \notin DOMAIN Rec(k)

C8_Witness ==
    /\ variant = "class"
    /\ table = "volume"
    /\ printed # <<>>
    /\ Len(printed[1]) = 1
    /\ HasAttr(steps[1], "volumeStatus")
    /\ ValueOf(steps[1], "volumeStatus") = OctetString(<<"UNKNOWN">>)
    /\ printed[1][1]["volume_status"] = IntV(5)

----------------------------------------------------------------------------
\* C9: in every normalizer, the record of a row processed without error has
\* exactly one key, besides host, for each field of the row: no field is
\* left without a key and no field writes two.
C9_OneKeyPerField ==
    \A k \in 1..Len(measurement_list) :
        Cardinality(DOMAIN Rec(k) \ {"host"}) = Len(steps[k])

----------------------------------------------------------------------------
\* C10: in every normalizer of every variant, a run issues the device-name
\* query at most once, however many rows the walk returned, and every record
\* of the run carries the name that query returned.
C10_NameQueriedOnce ==
    /\ nameQueries <= 1
    /\ \A k \in 1..Len(measurement_list) :
          /\ "host" \in DOMAIN Rec(k)
          /\ Rec(k)["host"] = StrV(<<replies[1].name>>)

----------------------------------------------------------------------------
\* C11: for each of the options of main.py (disks, fans, temperature,
\* volumes, interfaces), every record of the array the run prints has the
\* key host, holding the name the device gave to the run's name query.
C11_MainRecordsCarryHost ==
    variant = "class" =>
        \A p \in 1..Len(printed) :
            \A k \in 1..Len(printed[p]) :
                /\ "host" \in DOMAIN printed[p][k]
                /\ replies # <<>>
                /\ printed[p][k]["host"] = StrV(<<replies[1].name>>)

----------------------------------------------------------------------------
\* The metrics the command line is said to offer
Metrics == Tables \cup {"uptime"}

\* C12: a run of main.py calls the poll-and-emit of exactly one metric, the
\* one of its option, and each of the six metrics disks, fans, temperature,
\* volumes, interfaces and uptime has an option that runs it.
C12_OneFlagPerMetric ==
    variant = "class" =>
        /\ Len(calls) = 1
        /\ \E f \in Flags : FlagTable(f) = calls[1]
        /\ Len(printed) <= 1
        /\ \A metric \in Metrics : \E f \in Flags : FlagTable(f) = metric

----------------------------------------------------------------------------
\* C13 as stated: in a run of main.py, get_readynas_disk_stats.py or
\* gather_readynas_stats.py, once a table has been polled and emitted no
\* second table is polled.
C13_OneCyclePerRun ==
    (printed # <<>> \/ written # <<>>) => Len(calls) = 1

\* C13: a run of main.py or of get_readynas_disk_stats.py polls one table
\* and emits at most once; a run of gather_readynas_stats.py polls disk, fan,
\* temperature, volume and interface in this order, a table being polled
\* only when every table before it was written without an exception.
C13_CyclesPerProgram ==
    /\ variant \in {"class", "script"} =>
          /\ Len(calls) = 1
          /\ Len(printed) <= 1
          /\ written = <<>>
    /\ variant = "ts" =>
          /\ Len(calls) <= Len(GatherCalls)
          /\ \A k \in 1..Len(calls) : calls[k] = GatherCalls[k]
          /\ printed = <<>>
          /\ Len(written) \in {Len(calls) - 1, Len(calls)}
          /\ (Len(written) = Len(calls)) => pc = "done"

C13_Witness ==
    /\ variant = "ts"
    /\ calls = GatherCalls
    /\ Len(written) = Len(GatherCalls)
    /\ pc = "done"
    /\ error = "none"

----------------------------------------------------------------------------
\* C14: construct_credentials called with v3 = True raises
\* NotImplementedError and returns nothing, whatever the credentials; called
\* with v3 = False it returns the community credential of the given string
\* and does not raise.
C14_CredentialsV3Unsupported ==
    (pure.fn = "construct_credentials" /\ pure.returned) =>
        /\ pure.arg[1] = "True" =>
              /\ pure.err = "NotImplementedError"
              /\ pure.value.kind = "None"
        /\ pure.arg[1] = "False" =>
              /\ pure.err = "none"
              /\ pure.value = [kind |-> "CommunityData", name |-> pure.arg[2]]

C14_Witness ==
    /\ pure.fn = "construct_credentials"
    /\ pure.returned
    /\ pure.arg = <<"True", "public">>
    /\ pure.err = "NotImplementedError"

----------------------------------------------------------------------------
\* The ways of reading full_name as MIB::attr.idx
Readings(full_name) ==
    {<<j, q>> \in (1..Len(full_name)) \X (1..Len(full_name)) :
        /\ j + 1 < q
        /\ full_name[j] = ":"
        /\ full_name[j + 1] = ":"
        /\ full_name[q] = "."}

MibOf(full_name, r) == SubSeq(full_name, 1, r[1] - 1)
AttrOf(full_name, r) == SubSeq(full_name, r[1] + 2, r[2] - 1)
IdxOf(full_name, r) == SubSeq(full_name, r[2] + 1, Len(full_name))

\* A part with no "." and no "::" in it
PlainPart(x) ==
    /\ \A k \in 1..Len(x) : x[k] # "."
    /\ \A k \in 1..(Len(x) - 1) : ~(x[k] = ":" /\ x[k + 1] = ":")

\* C15 as stated: get_brief_name of MIB::attr.idx, the three parts holding
\* neither "::" nor ".", returns attr.
C15_BriefNameIsAttr ==
    (pure.fn = "get_brief_name" /\ pure.returned) =>
        \A r \in Readings(pure.arg[1]) :
            (/\ PlainPart(MibOf(pure.arg[1], r))
             /\ PlainPart(AttrOf(pure.arg[1], r))
             /\ PlainPart(IdxOf(pure.arg[1], r)))
            => /\ pure.err = "none"
               /\ pure.value = AttrOf(pure.arg[1], r)

\* C15: get_brief_name of MIB::attr.idx returns attr when the three parts
\* hold neither "::" nor ".", MIB does not end with ":" and attr holds no
\* line break.
C15_BriefNameOfDisplayName ==
    (pure.fn = "get_brief_name" /\ pure.returned) =>
        \A r \in Readings(pure.arg[1]) :
            (/\ PlainPart(MibOf(pure.arg[1], r))
             /\ PlainPart(AttrOf(pure.arg[1], r))
             /\ PlainPart(IdxOf(pure.arg[1], r))
             /\ r[1] > 1 => pure.arg[1][r[1] - 1] # ":"
             /\ \A k \in 1..Len(AttrOf(pure.arg[1], r)) : AttrOf(pure.arg[1], r)[k] # "\n")
            => /\ pure.err = "none"
               /\ pure.value = AttrOf(pure.arg[1], r)

C15_Witness ==
    /\ pure.fn = "get_brief_name"
    /\ pure.returned
    /\ pure.arg[1] = <<"m", ":", ":", "a", ".", "m">>
    /\ pure.err = "none"
    /\ pure.value = <<"a">>

----------------------------------------------------------------------------
\* full_name has a "::" with a "." somewhere after it
HasSeparators(full_name) ==
    \E j \in 1..Len(full_name), q \in 1..Len(full_name) :
        /\ j + 1 < q
        /\ full_name[j] = ":"
        /\ full_name[j + 1] = ":"
        /\ full_name[q] = "."

\* C16: get_brief_name of a string that has no "::", or no "." after the
\* "::", raises the ValueError it declares for a string not in the correct
\* format; it raises nothing else and returns no value.
C16_FormatErrorDeclared ==
    (pure.fn = "get_brief_name" /\ pure.returned /\ ~HasSeparators(pure.arg[1])) =>
        pure.err = "ValueError"

----------------------------------------------------------------------------
RECURSIVE Pow10(_)
Pow10(k) == IF k = 0 THEN 1 ELSE 10 * Pow10(k - 1)

\* n is the integer that the digits, read as a decimal numeral, denote
Denotes(digits, n) ==
    /\ n >= 0
    /\ n < Pow10(Len(digits))
    /\ \A k \in 1..Len(digits) :
          (n \div Pow10(Len(digits) - k)) % 10 = DigitVal(digits[k])

----------------------------------------------------------------------------
\* The batches influxdb_write has been called with: those it handed to
\* write_points and the one it held when no client could be created
Passed ==
    IF variant = "ts" /\ error = "UnboundLocalError"
    THEN Append(written, measurement_list)
    ELSE written

PointKeys == {"measurement", "tags", "time", "fields"}

\* The column that identifies a row of the table and the tag it becomes
IndexAttr(t) ==
    CASE t = "disk" -> "diskNumber"
      [] t = "fan" -> "fanNumber"
      [] t = "temperature" -> "temperatureNumber"
      [] t = "volume" -> "volumeNumber"
      [] OTHER -> "ifName"

IndexTag(t) ==
    CASE t = "disk" -> "disk_number"
      [] t = "fan" -> "fan_number"
      [] t = "temperature" -> "temperature_number"
      [] t = "volume" -> "volume_number"
      [] OTHER -> "ifName"

\* C18 as stated: every point of a batch passed to influxdb_write has the
\* keys measurement, tags, time and fields, and its tags hold host and the
\* index tag of the table, whatever row the walk returned.
C18_PointsCarryIndexTag ==
    variant = "ts" =>
        \A b \in 1..Len(Passed) : \A k \in 1..Len(Passed[b]) :
            /\ DOMAIN Passed[b][k] = PointKeys
            /\ {"host", IndexTag(table)} \subseteq DOMAIN Passed[b][k]["tags"]

\* C18: every point of a batch passed to influxdb_write has the keys
\* measurement, tags, time and fields; its tags hold host, the device name,
\* and hold the index tag of the table exactly when the row of the point
\* carries the index column, the tag then having that column's value; the
\* tags hold nothing else.
C18_PointShape ==
    variant = "ts" =>
        \A b \in 1..Len(Passed) : \A k \in 1..Len(Passed[b]) :
            LET point == Passed[b][k]
                row == steps[k]
            IN  /\ DOMAIN point = PointKeys
                /\ point["measurement"] = measurement_name(table)
                /\ point["time"] = Timestamp
                /\ DOMAIN point["tags"] =
                     {"host"} \cup (IF HasAttr(row, IndexAttr(table))
                                    THEN {IndexTag(table)} ELSE {})
                /\ point["tags"]["host"] = ResolvedName(k)
                /\ HasAttr(row, IndexAttr(table)) =>
                     point["tags"][IndexTag(table)] = cast(ValueOf(row, IndexAttr(table)))

\* A batch was passed whose first point has the index tag and whose second
\* point, from a row without the index column, has not
C18_Witness ==
    /\ variant = "ts"
    /\ Len(Passed) = 1
    /\ Len(Passed[1]) = 2
    /\ IndexTag(table) \in DOMAIN Passed[1][1]["tags"]
    /\ IndexTag(table) \notin DOMAIN Passed[1][2]["tags"]

----------------------------------------------------------------------------
\* The walk returned and every row it returned has been normalized
NormalizationFinished ==
    /\ entries # NoEntries
    /\ i = Len(entries.rows)
    /\ pc = "done"

\* C19: a call of a normalizer of the time-series program passes nothing
\* to influxdb_write while rows are still being walked or normalized; once
\* every row is normalized it has called influxdb_write exactly once, with
\* the list holding one point per row of the walk (the empty list for a
\* walk of no rows); a call ended by a failed query or a failed row has
\* called it zero times.
C19_OneWritePerCall ==
    variant = "ts" =>
        /\ pc # "done" => Passed = <<>>
        /\ NormalizationFinished =>
              /\ Passed = <<measurement_list>>
              /\ Len(Passed[1]) = Len(steps)
              /\ Len(steps) = Len(entries.rows)
        /\ (pc = "done" /\ ~NormalizationFinished) =>
              /\ Passed = <<>>
              /\ error # "none"

\* A call over a walk of two rows has passed its one batch of two points
C19_Witness ==
    /\ variant = "ts"
    /\ NormalizationFinished
    /\ Len(Passed) = 1
    /\ Len(Passed[1]) = 2
    /\ Len(steps) = 2

----------------------------------------------------------------------------
\* What the statements of influxdb_write's try block raise: the constructor
\* of the client (a port that is no number) and write_points
ClientExceptions == {"ValueError", "InfluxDBClientError"}

\* C20: whenever influxdb_write has logged its message, an exception of
\* the client having arisen in its try block, the call of the normalizer
\* ends in that exception: no value is returned and the error that reaches
\* the caller is the client's, not one raised while cleaning up.
C20_ClientExceptionPropagates ==
    (variant = "ts" /\ logged # <<>>) =>
        /\ pc = "done"
        /\ ret = "none"
        /\ error \in ClientExceptions

----------------------------------------------------------------------------
\* C21 as stated: a call of influxdb_write that has left, by return or by
\* raise, created exactly one client and holds none; no client is held
\* when a call starts.
C21_OneConnectionPerCall ==
    pure.fn = "influxdb_write" =>
        /\ pure.returned => (pure.acquired = 1 /\ pure.held = 0)
        /\ pc = "connect" => pure.held = 0

\* C21: a call of influxdb_write creates at most one client, exactly one
\* unless the creation itself raises, in which case it creates none; at
\* most one client is bound at any time; when the call has left, by
\* returning True, by returning False or by raising, the client it created
\* is no longer bound, and none is bound when the next call starts.
C21_ConnectionScoped ==
    pure.fn = "influxdb_write" =>
        /\ pure.acquired \in {0, 1}
        /\ pure.held = (IF pure.client = "bound" THEN 1 ELSE 0)
        /\ pure.returned =>
              /\ pure.held = 0
              /\ pure.acquired = 0 <=> error = "UnboundLocalError"
        /\ pc \in {"write", "test"} => pure.acquired = 1
        /\ pc = "connect" => (pure.held = 0 /\ pure.acquired = 0)

\* The second call of a run created its client, write_points raised, and
\* the call has left with no client bound
C21_Witness ==
    /\ pure.fn = "influxdb_write"
    /\ Len(calls) = 2
    /\ pure.returned
    /\ pure.acquired = 1
    /\ pure.held = 0
    /\ error = "InfluxDBClientError"

----------------------------------------------------------------------------
\* C22: when nothing raises, influxdb_write returns True exactly when the
\* result of write_points is the object True and False for every other
\* result, the normalizer returns the boolean influxdb_write returned, and
\* neither returns anything but True or False; a call that raises returns
\* nothing.
C22_BooleanOutcome ==
    pure.fn = "influxdb_write" =>
        /\ pure.value \in {"none", "True", "False"}
        /\ ret \in {"none", "True", "False"}
        /\ (pure.returned /\ pure.err = "none") =>
              /\ pure.status \in WriteResults
              /\ pure.value \in {"True", "False"}
              /\ pure.value = "True" <=> pure.status = "True"
        /\ (pc = "done" /\ error = "none") => ret = pure.value
        /\ pure.err # "none" => (pure.value = "none" /\ ret = "none")

\* write_points handed back 1, which is not the object True: influxdb_write
\* and the normalizer returned False
C22_Witness ==
    /\ pure.fn = "influxdb_write"
    /\ pc = "done"
    /\ pure.status = "1"
    /\ pure.value = "False"
    /\ ret = "False"

----------------------------------------------------------------------------
\* C23: in the interface normalizer of the time-series program, every row
\* gives a point: the value of ifName is in the tags, under ifName, and not
\* in the fields; every other field of the row is in the fields under its
\* brief name with the value the walk gave it; the tags hold nothing but
\* host and ifName; no field of a row ends the run with an error.
C23_InterfaceTagsAndFields ==
    (variant = "ts" /\ table = "interface") =>
        /\ error \notin {"ValueError", "AttributeError"}
        /\ \A k \in 1..Len(measurement_list) :
              LET point == measurement_list[k]
                  row == steps[k]
              IN  /\ DOMAIN point["fields"] = AttrsOf(row) \ {"ifName"}
                  /\ DOMAIN point["tags"] = {"host"} \cup (AttrsOf(row) \cap {"ifName"})
                  /\ \A a \in AttrsOf(row) :
                        IF a = "ifName"
                        THEN point["tags"][a] = cast(ValueOf(row, a))
                        ELSE point["fields"][a] = cast(ValueOf(row, a))

\* A point of a row with ifName, a counter and an operational status, the
\* status still the text the device gave
C23_Witness ==
    /\ variant = "ts"
    /\ table = "interface"
    /\ Len(measurement_list) = 1
    /\ DOMAIN measurement_list[1]["tags"] = {"host", "ifName"}
    /\ DOMAIN measurement_list[1]["fields"] = {"ifIndex", "ifOperStatus", "ifHCInOctets"}
    /\ measurement_list[1]["fields"]["ifOperStatus"] = StrV(<<"up">>)

----------------------------------------------------------------------------
\* The value a row holds under a key
GetItem(items, key) == items[CHOOSE k \in 1..Len(items) : items[k][1] = key][2]

\* The display names of the bindings of the k-th step
StepNames(k) == {DisplayName(Mib(table), steps[k][j].name, ToString(k)) : j \in 1..Len(steps[k])}

\* C24: while no step of the handler reports an error, fetch has appended
\* exactly one row per step taken, in the order of the steps, and what it
\* returns is that list; the keys of the k-th row are the full display
\* names of the bindings of the k-th step, each key once, and each binding's
\* display name is mapped to the cast of the binding's value.
C24_FetchRowPerStep ==
    (variant \in {"script", "ts"} /\ (pc = "walk" \/ entries # NoEntries)) =>
        /\ Len(result) = consumed
        /\ Len(result) = Len(steps)
        /\ entries # NoEntries => entries.rows = result
        /\ \A k \in 1..Len(result) :
              /\ {result[k][j][1] : j \in 1..Len(result[k])} = StepNames(k)
              /\ Len(result[k]) = Cardinality(StepNames(k))
              /\ \A j \in 1..Len(steps[k]) :
                    GetItem(result[k],
                            DisplayName(Mib(table), steps[k][j].name, ToString(k)))
                        = cast(steps[k][j].val)

\* fetch returned two rows, the first of a step with two bindings, one of
\* them a text
C24_Witness ==
    /\ variant = "ts"
    /\ entries # NoEntries
    /\ Len(entries.rows) = 2
    /\ Len(steps[1]) = 2
    /\ \E j \in 1..2 : entries.rows[1][j][2].t = "str"

----------------------------------------------------------------------------
\* The record a normalizer builds from one row and the device name alone
RecordOfRow(host, entry) ==
    CASE variant = "class" -> class_entry_acc(table, host, entry).fields
      [] variant = "script" -> script_entry_acc(table, host, entry).fields
      [] OTHER -> ts_entry_acc(table, host, entry).meas

\* C25: in every normalizer the k-th record is what the k-th row and the
\* device name give by themselves, whatever the rows before it held: it has
\* at most one key per field of its row besides host (and, in the volume
\* normalizer of GetReadyNasStats, the used space), and
\* volume_used_space_mb is present only when the row itself carries
\* volumeSize and volumeFreeSpace, being the difference of those two values.
C25_NoCarryOver ==
    \A k \in 1..Len(measurement_list) :
        LET row == steps[k]
            own == HasAttr(row, "volumeSize") /\ HasAttr(row, "volumeFreeSpace")
        IN  /\ measurement_list[k] = RecordOfRow(ResolvedName(k), entries.rows[k])
            /\ "host" \in DOMAIN Rec(k)
            /\ Cardinality(DOMAIN Rec(k)) <=
                   1 + Len(row) + (IF variant = "class" /\ table = "volume" /\ own
                                   THEN 1 ELSE 0)
            /\ "volume_used_space_mb" \in DOMAIN Rec(k) =>
                   /\ own
                   /\ Rec(k)["volume_used_space_mb"] =
                          IntV(cast(ValueOf(row, "volumeSize")).n
                               - cast(ValueOf(row, "volumeFreeSpace")).n)

\* Two volume records of GetReadyNasStats: the first row carried the size
\* only, the second the free space only, and the second has no used space
C25_Witness ==
    /\ variant = "class"
    /\ table = "volume"
    /\ Len(measurement_list) = 2
    /\ "volume_total_size_mb" \in DOMAIN measurement_list[1]
    /\ "volume_free_space_mb" \in DOMAIN measurement_list[2]
    /\ "volume_total_size_mb" \notin DOMAIN measurement_list[2]
    /\ "volume_used_space_mb" \notin DOMAIN measurement_list[2]

----------------------------------------------------------------------------
\* The working state a normalizer ends a row with
RowAcc(host, entry) ==
    CASE variant = "class" -> class_entry_acc(table, host, entry)
      [] variant = "script" -> script_entry_acc(table, host, entry)
      [] OTHER -> ts_entry_acc(table, host, entry)

\* The row of the k-th step as the walk hands it over, its fields in the
\* order the columns were requested
RequestOrderEntry(k) ==
    IF variant = "class"
    THEN bulkwalk_items(InRequestOrder(steps[k]), <<>>)
    ELSE fetch_items(Mib(table), ToString(k), InRequestOrder(steps[k]), <<>>)

\* The run ended in an error raised by a field of a row
FieldError ==
    /\ ShapeFits
    /\ replies # <<>>
    /\ AllRepliesOk
    /\ error \in {"ValueError", "TypeError", "AttributeError"}

\* C26: in the disk, fan, temperature and volume normalizers, the record of
\* a row whose fields are iterated in any order is the record of the same
\* fields in request order, used space included; and a row that gives no
\* record in one order gives none in the other.
C26_OrderIndependent ==
    table \in {"disk", "fan", "temperature", "volume"} =>
        /\ \A k \in 1..Len(measurement_list) :
              LET acc == RowAcc(ResolvedName(k), RequestOrderEntry(k))
              IN  /\ acc.err = "none"
                  /\ measurement_list[k] =
                        (IF variant = "ts" THEN acc.meas ELSE acc.fields)
        /\ FieldError =>
              RowAcc(ResolvedName(1), RequestOrderEntry(1)).err # "none"

\* A volume record of GetReadyNasStats with the used space, from a row in
\* which volumeFreeSpace came before volumeSize
C26_Witness ==
    /\ variant = "class"
    /\ table = "volume"
    /\ Len(measurement_list) = 1
    /\ Len(steps[1]) >= 2
    /\ steps[1][1].name = "volumeFreeSpace"
    /\ steps[1][2].name = "volumeSize"
    /\ "volume_used_space_mb" \in DOMAIN measurement_list[1]

----------------------------------------------------------------------------
\* What each volume normalizer makes of a status value by itself
StatusOfClass(value) == class_volume_status(NewAcc, value)
StatusOfTs(value) == ts_volume_status(NewAcc, value)

SixStates == {StrV(<<w>>) : w \in VolumeStates}

\* C27: for a volume row carrying volumeStatus, the record of either volume
\* normalizer has volume_status exactly when the value is one of
\* REDUNDANT, DEGRADED, UNPROTECTED, DEAD, INACTIVE, UNKNOWN; the code of
\* the time-series program is then the code of GetReadyNasStats plus 1;
\* for any other value neither normalizer writes the key and neither
\* raises because of it.
C27_StatusOffsetByOne ==
    (table = "volume" /\ variant \in {"class", "ts"}) =>
        /\ \A k \in 1..Len(measurement_list) :
              HasAttr(steps[k], "volumeStatus") =>
                  LET value == cast(ValueOf(steps[k], "volumeStatus"))
                      c == StatusOfClass(value)
                      t == StatusOfTs(value)
                      mine == IF variant = "class" THEN c ELSE t
                  IN  /\ c.err = "none" /\ t.err = "none"
                      /\ "volume_status" \in DOMAIN Rec(k) <=> value \in SixStates
                      /\ DOMAIN c.fields = DOMAIN t.fields
                      /\ DOMAIN mine.fields = DOMAIN Rec(k) \cap {"volume_status"}
                      /\ value \in SixStates =>
                            /\ Rec(k)["volume_status"] = mine.fields["volume_status"]
                            /\ t.fields["volume_status"].n = c.fields["volume_status"].n + 1
                            /\ c.fields["volume_status"].t = "int"
                            /\ t.fields["volume_status"].t = "int"
        /\ FieldError => (HasUnknown(steps[1]) \/ SubtractionFails(steps[1]))

\* The time-series program's record of a DEAD volume has code 4, one more
\* than the code of GetReadyNasStats
C27_Witness ==
    /\ variant = "ts"
    /\ table = "volume"
    /\ Len(measurement_list) = 1
    /\ HasAttr(steps[1], "volumeStatus")
    /\ "volume_status" \in DOMAIN Rec(1)
    /\ Rec(1)["volume_status"] = IntV(4)
    /\ StatusOfClass(StrV(<<"DEAD">>)).fields["volume_status"] = IntV(3)

----------------------------------------------------------------------------
IsPrefix(a, b) == Len(a) <= Len(b) /\ \A k \in 1..Len(a) : a[k] = b[k]

\* The tables of a run of gather_readynas_stats.py so far are the first of
\* the fixed order, the last of them is the one at work, and every table
\* before it has its batch, of its own measurement, with write_points
GatherInOrder ==
    /\ IsPrefix(calls, GatherCalls)
    /\ table = calls[Len(calls)]
    /\ pc # "done" => Len(written) = Len(calls) - 1
    /\ Len(written) \in {Len(calls) - 1, Len(calls)}
    /\ \A b \in 1..Len(written) : \A k \in 1..Len(written[b]) :
          written[b][k]["measurement"] = measurement_name(GatherCalls[b])
    /\ error # "none" => pc = "done"

\* A step of such a run: it starts where no error has been raised, it
\* keeps the batches written and the tables polled so far, and it goes to
\* the next table only from a table whose write has been made
GatherStep ==
    /\ error = "none"
    /\ IsPrefix(written, written')
    /\ IsPrefix(calls, calls')
    /\ calls' # calls =>
          /\ Len(written) = Len(calls)
          /\ Len(calls') = Len(calls) + 1
          /\ pc = "done"
          /\ written' = written

\* C28: a run of gather_readynas_stats.py takes the tables in the order
\* disk, fan, temperature, volume, interface; a table is queried only when
\* the batch of every table before it has been handed to write_points;
\* once a table has raised an error nothing more happens, so no later
\* table is queried or written; and no step removes or changes a batch
\* already written.
C28_GatherSequence ==
    /\ [](variant = "ts" => GatherInOrder)
    /\ [][variant = "ts" => GatherStep]_vars

\* The volume table failed in its walk after disk, fan and temperature
\* were written: three batches stay, interface is never polled
C28_Witness ==
    /\ variant = "ts"
    /\ calls = <<"disk", "fan", "temperature", "volume">>
    /\ pc = "done"
    /\ error = "RuntimeError"
    /\ Len(written) = 3

====
